---- MODULE Spec2Model ----
(***************************************************************************)
(* A model of the URL shortener core: code generation, custom-code         *)
(* validation, the collision resolver, the URL store with its uniqueness   *)
(* constraint, and the redirect / update / deactivate lifecycle.           *)
(*                                                                         *)
(* Strings are sequences of one-character strings, so that the validators  *)
(* and the base-62 conversion are computed character by character as the   *)
(* Go code computes them.                                                  *)
(***************************************************************************)
EXTENDS Integers, Sequences, FiniteSets, TLC

(***************************************************************************)
(* Bounds of the model.                                                    *)
(***************************************************************************)
\* processes (goroutines serving one request each at a time)
NumProcs == 2
\* service instances sharing the one store, each with its own generator
NumInstances == 2
\* requests started in one behaviour
MaxOps == 4
\* the clock runs 0..MaxTime
MaxTime == 1
\* the random source returns 0..MaxRand (a subset of [0, 62^length))
MaxRand == 0
\* GenerateBatch is asked for at most MaxBatch codes, its random source
\* returns 0..MaxBatchRand, and one call draws at most MaxDraws times
MaxBatch == 3
MaxBatchRand == 2
MaxDraws == 4

(***************************************************************************)
(* Program constants.                                                      *)
(***************************************************************************)
\* shortener/generator.go
minCodeLength == 4
maxCodeLength == 12
\* models/url.go
MaxURLLength == 2048
MinCustomCodeLength == 2
MaxCustomCodeLength == 50
\* DefaultConfig
MaxRetries == 5
DefaultCodeLength == 7
CollisionThreshold == 3
EnableAnalytics == TRUE
RespectDNT == TRUE
\* Repository.UpdateCounterShards: rand.Intn(64)
NumShards == 64

(***************************************************************************)
(* Characters and string helpers (package strings).                        *)
(***************************************************************************)
LowerChars == <<"a","b","c","d","e","f","g","h","i","j","k","l","m",
                "n","o","p","q","r","s","t","u","v","w","x","y","z">>
UpperChars == <<"A","B","C","D","E","F","G","H","I","J","K","L","M",
                "N","O","P","Q","R","S","T","U","V","W","X","Y","Z">>
DigitChars == <<"0","1","2","3","4","5","6","7","8","9">>

\* base62Chars = "abc...zABC...Z0123456789"
base62Chars == LowerChars \o UpperChars \o DigitChars
base62Base == Len(base62Chars)

Range(s) == { s[i] : i \in 1..Len(s) }

ToLowerChar(c) ==
    IF \E i \in 1..26 : UpperChars[i] = c
    THEN LowerChars[CHOOSE i \in 1..26 : UpperChars[i] = c]
    ELSE c

\* strings.ToLower
ToLower(s) == [i \in 1..Len(s) |-> ToLowerChar(s[i])]

\* strings.HasPrefix / strings.HasSuffix
HasPrefix(s, p) == Len(s) >= Len(p) /\ SubSeq(s, 1, Len(p)) = p
HasSuffix(s, p) == Len(s) >= Len(p) /\ SubSeq(s, Len(s) - Len(p) + 1, Len(s)) = p

\* strings.Index for a one-character separator: 0 when absent, else the
\* 1-based position of the first occurrence
IndexChar(s, c) ==
    IF \E i \in 1..Len(s) : s[i] = c
    THEN CHOOSE i \in 1..Len(s) : s[i] = c /\ \A j \in 1..(i-1) : s[j] # c
    ELSE 0

\* strings.LastIndex for a one-character separator
LastIndexChar(s, c) ==
    IF \E i \in 1..Len(s) : s[i] = c
    THEN CHOOSE i \in 1..Len(s) : s[i] = c /\ \A j \in (i+1)..Len(s) : s[j] # c
    ELSE 0

\* strings.Contains for a substring
Contains(s, sub) ==
    \E i \in 1..(Len(s) - Len(sub) + 1) : SubSeq(s, i, i + Len(sub) - 1) = sub

\* strings.Count for a one-character separator
CountChar(s, c) == Cardinality({ i \in 1..Len(s) : s[i] = c })

\* strings.Cut(s, c): the text before and after the first c
CutBefore(s, c) == IF IndexChar(s, c) = 0 THEN s ELSE SubSeq(s, 1, IndexChar(s, c) - 1)
CutAfter(s, c) == IF IndexChar(s, c) = 0 THEN <<>> ELSE SubSeq(s, IndexChar(s, c) + 1, Len(s))

(***************************************************************************)
(* shortener/generator.go                                                  *)
(***************************************************************************)
RECURSIVE InKeyspace(_, _)
\* rand.Int(rand.Reader, 62^codeLength) returns a value in [0, 62^codeLength):
\* value < 62^codeLength, computed without forming the power
InKeyspace(value, codeLength) ==
    IF codeLength = 0 THEN value = 0 ELSE InKeyspace(value \div base62Base, codeLength - 1)

\* a padding loop that never runs: short values keep their short text
PadLeftNever(result, codeLength) == result

RECURSIVE PadLeft(_, _)
\* for len(result) < g.codeLength { result = string(base62Chars[0]) + result }
PadLeft(result, codeLength) ==
    IF Len(result) < codeLength
    THEN PadLeft(<<base62Chars[1]>> \o result, codeLength)
    ELSE result

RECURSIVE Base62DigitsLeastFirst(_, _)
\* a conversion that appends each remainder instead of prepending it
Base62DigitsLeastFirst(num, result) ==
    IF num > 0
    THEN Base62DigitsLeastFirst(num \div base62Base,
                                result \o <<base62Chars[(num % base62Base) + 1]>>)
    ELSE result

RECURSIVE Base62Digits(_, _)
\* for num > 0 { num, remainder = DivMod(num, 62); result = chars[remainder] + result }
Base62Digits(num, result) ==
    IF num > 0
    THEN Base62Digits(num \div base62Base, <<base62Chars[(num % base62Base) + 1]>> \o result)
    ELSE result

\* Generator.toBase62
toBase62(value, codeLength) ==
    IF value = 0
    THEN PadLeft(<<base62Chars[1]>>, codeLength)
    ELSE PadLeft(Base62Digits(value, <<>>), codeLength)

RECURSIVE FromBase62(_)
\* the value whose base-62 text is code (the inverse of Base62Digits)
FromBase62(code) ==
    IF code = <<>> THEN 0
    ELSE FromBase62(SubSeq(code, 1, Len(code) - 1)) * base62Base
             + (IndexChar(base62Chars, code[Len(code)]) - 1)

\* NewGeneratorWithLength: the length is accepted only within [4, 12]
NewGeneratorWithLength(length) ==
    IF length < minCodeLength \/ length > maxCodeLength
    THEN [ok |-> FALSE, codeLength |-> 0]
    ELSE [ok |-> TRUE, codeLength |-> length]

\* Generator.Generate with the value rand.Int returned
Generate(codeLength, randomValue) == toBase62(randomValue, codeLength)

\* a validity test that applies the alphabet of custom codes
IsValidCodeCustomAlphabet(code) ==
    IF Len(code) < minCodeLength \/ Len(code) > maxCodeLength
    THEN FALSE
    ELSE \A i \in 1..Len(code) : code[i] \in Range(base62Chars) \cup {"_", "-"}

\* a batch that keeps every code drawn
BatchKeepAll(codes, code) == Append(codes, code)

\* GenerateBatch: if !seen[code] { seen[code] = true; codes = append(codes, code) }
BatchAppend(codes, code) ==
    IF code \in Range(codes) THEN codes ELSE Append(codes, code)

\* IsValidCode
IsValidCode(code) ==
    IF Len(code) < minCodeLength \/ Len(code) > maxCodeLength
    THEN FALSE
    ELSE \A i \in 1..Len(code) : code[i] \in Range(base62Chars)

(***************************************************************************)
(* models/url.go: the custom code validator                                *)
(***************************************************************************)
\* a pattern that accepts every non-empty text
customCodeRegexAny(code) == Len(code) >= 1

\* customCodeRegex = ^[a-zA-Z0-9_-]+$
customCodeRegex(code) ==
    /\ Len(code) >= 1
    /\ \A i \in 1..Len(code) : code[i] \in Range(base62Chars) \cup {"_", "-"}

reservedPatterns ==
    << <<"a","p","i">>, <<"w","w","w">>, <<"a","d","m","i","n">>,
       <<"r","o","o","t">>, <<"n","u","l","l">>,
       <<"u","n","d","e","f","i","n","e","d">> >>

\* a validator that looks at the characters before the length
ValidateCustomCodeFormatFirst(code) ==
    IF code = <<>> THEN "ok"
    ELSE IF ~customCodeRegex(code) THEN "ErrInvalidCustomCode"
    ELSE IF Len(code) < MinCustomCodeLength THEN "ErrCustomCodeTooShort"
    ELSE IF Len(code) > MaxCustomCodeLength THEN "ErrCustomCodeTooLong"
    ELSE IF ToLower(code) \in Range(reservedPatterns) THEN "ErrReservedCode"
    ELSE "ok"

\* models.ValidateCustomCode: "ok" or the name of the error returned
ValidateCustomCode(code) ==
    IF code = <<>> THEN "ok"
    ELSE IF Len(code) < MinCustomCodeLength THEN "ErrCustomCodeTooShort"
    ELSE IF Len(code) > MaxCustomCodeLength THEN "ErrCustomCodeTooLong"
    ELSE IF ~customCodeRegex(code) THEN "ErrInvalidCustomCode"
    ELSE IF ToLower(code) \in Range(reservedPatterns) THEN "ErrReservedCode"
    ELSE "ok"

(***************************************************************************)
(* net/url as models/url.go uses it.  The operators follow url.Parse and   *)
(* URL.String for input texts of letters, digits and the characters        *)
(* : / . - _ ? # @ [ ]  (no percent-escapes, spaces or control bytes in    *)
(* the input, so unescaping leaves every component as it is; URL.String    *)
(* escapes what the user information and the fragment may not carry).      *)
(***************************************************************************)
SchemeChars == Range(LowerChars) \cup Range(UpperChars) \cup Range(DigitChars) \cup {"+", "-", "."}

\* position of the first character getScheme stops at, 0 when it reads to the end
SchemeStop(s) ==
    IF \E i \in 1..Len(s) : s[i] \notin SchemeChars
    THEN CHOOSE i \in 1..Len(s) : s[i] \notin SchemeChars /\ \A j \in 1..(i-1) : s[j] \in SchemeChars
    ELSE 0

\* url.getScheme: [err, scheme, rest]
getScheme(s) ==
    LET k == SchemeStop(s)
        none == [err |-> FALSE, scheme |-> <<>>, rest |-> s]
    IN  IF s = <<>> THEN none
        ELSE IF s[1] = ":" THEN [err |-> TRUE, scheme |-> <<>>, rest |-> <<>>]
        ELSE IF s[1] \in Range(DigitChars) \cup {"+", "-", "."} THEN none
        ELSE IF k = 0 THEN none
        ELSE IF s[k] = ":" THEN [err |-> FALSE, scheme |-> SubSeq(s, 1, k - 1), rest |-> SubSeq(s, k + 1, Len(s))]
        ELSE none

\* url.validOptionalPort
validOptionalPort(port) ==
    IF port = <<>> THEN TRUE
    ELSE IF port[1] # ":" THEN FALSE
    ELSE \A i \in 2..Len(port) : port[i] \in Range(DigitChars)

\* url.parseHost: TRUE when the host is accepted (it is stored as written)
parseHostOk(host) ==
    IF HasPrefix(host, <<"[">>)
    THEN /\ LastIndexChar(host, "]") # 0
         /\ validOptionalPort(SubSeq(host, LastIndexChar(host, "]") + 1, Len(host)))
    ELSE IF LastIndexChar(host, ":") # 0
    THEN validOptionalPort(SubSeq(host, LastIndexChar(host, ":"), Len(host)))
    ELSE TRUE

NoURL == [err |-> TRUE, Scheme |-> <<>>, Opaque |-> <<>>, HasUser |-> FALSE, User |-> <<>>,
          Host |-> <<>>, Path |-> <<>>, ForceQuery |-> FALSE, RawQuery |-> <<>>,
          OmitHost |-> FALSE, Fragment |-> <<>>]

\* the value of a one-element set: { F(x) : x \in {e} } evaluates e once
\* and F on its value
Only(S) == CHOOSE x \in S : TRUE

\* url.validUserinfo: letters, digits and - . _ : ~ ! $ & ' ( ) * + , ; = % @
validUserinfo(s) ==
    \A i \in 1..Len(s) :
        s[i] \in Range(LowerChars) \cup Range(UpperChars) \cup Range(DigitChars)
                 \cup {"-", ".", "_", ":", "~", "!", "$", "&", "'", "(", ")", "*", "+", ",",
                       ";", "=", "%", "@"}

\* url.escape: every character of s the mode escapes is written as its
\* percent-escape, pct giving the escaped characters and their escapes
RECURSIVE escape(_, _)
escape(s, pct) ==
    IF s = <<>> THEN <<>>
    ELSE (IF Head(s) \in DOMAIN pct THEN pct[Head(s)] ELSE <<Head(s)>>) \o escape(Tail(s), pct)

\* url.shouldEscape in mode encodeUserPassword, for the characters of the
\* input texts: '@', '/', '?' and ':' are escaped, '[' and ']' too
escapedInUserPassword ==
    [c \in {"@", "/", "?", ":", "#", "[", "]"} |->
        CASE c = "@" -> <<"%","4","0">>
          [] c = "/" -> <<"%","2","F">>
          [] c = "?" -> <<"%","3","F">>
          [] c = ":" -> <<"%","3","A">>
          [] c = "#" -> <<"%","2","3">>
          [] c = "[" -> <<"%","5","B">>
          [] c = "]" -> <<"%","5","D">>]

\* url.shouldEscape in mode encodeFragment, for the characters of the input
\* texts: '#', '[' and ']' are escaped
escapedInFragment ==
    [c \in {"#", "[", "]"} |->
        CASE c = "#" -> <<"%","2","3">>
          [] c = "[" -> <<"%","5","B">>
          [] c = "]" -> <<"%","5","D">>]

\* Userinfo.String of the user information parseAuthority read: without a
\* ':' it is the username, with one the username is the text before the
\* first ':' and the password the text after it
UserinfoString(userinfo) ==
    IF IndexChar(userinfo, ":") = 0 THEN escape(userinfo, escapedInUserPassword)
    ELSE escape(CutBefore(userinfo, ":"), escapedInUserPassword) \o <<":">>
         \o escape(CutAfter(userinfo, ":"), escapedInUserPassword)

\* url.validEncoded in mode encodeFragment, for the characters of the input
\* texts: '[' and ']' are accepted, '#' is not
validEncodedFragment(s) == IndexChar(s, "#") = 0

\* URL.EscapedFragment: the fragment as it was written when that is a valid
\* encoding of it, else its escape
EscapedFragment(fragment) ==
    IF validEncodedFragment(fragment) THEN fragment ELSE escape(fragment, escapedInFragment)

\* url.parseAuthority on the authority (the text between "//" and the next
\* '/'), and the rest as the path
parseAuthority(base, authority, rest) ==
    LET at   == LastIndexChar(authority, "@")
        host == IF at = 0 THEN authority ELSE SubSeq(authority, at + 1, Len(authority))
    IN  IF ~parseHostOk(host) THEN NoURL
        ELSE IF at # 0 /\ ~validUserinfo(SubSeq(authority, 1, at - 1)) THEN NoURL
        ELSE [base EXCEPT !.HasUser = (at # 0),
                          !.User = IF at = 0 THEN <<>> ELSE SubSeq(authority, 1, at - 1),
                          !.Host = host, !.Path = rest]

\* url.parse after the scheme and the query are cut off: rest is what is
\* left, base holds the components found so far
parseRest(base, rest) ==
    LET scheme  == base.Scheme
        hasAuth == /\ (scheme # <<>> \/ ~HasPrefix(rest, <<"/","/","/">>))
                   /\ HasPrefix(rest, <<"/","/">>)
        after   == SubSeq(rest, 3, Len(rest))
    IN  IF ~HasPrefix(rest, <<"/">>) /\ scheme # <<>>
        THEN [base EXCEPT !.Opaque = rest]
        ELSE IF ~HasPrefix(rest, <<"/">>) /\ IndexChar(CutBefore(rest, "/"), ":") # 0
             THEN NoURL
        ELSE IF hasAuth
             THEN Only({ parseAuthority(base,
                             IF slash = 0 THEN after ELSE SubSeq(after, 1, slash - 1),
                             IF slash = 0 THEN <<>> ELSE SubSeq(after, slash, Len(after)))
                         : slash \in {IndexChar(after, "/")} })
        ELSE [base EXCEPT !.OmitHost = (scheme # <<>> /\ HasPrefix(rest, <<"/">>)),
                          !.Path = rest]

\* url.parse on the text u before '#', gs being getScheme(u)
parseScheme(u, frag, gs) ==
    LET force == HasSuffix(gs.rest, <<"?">>) /\ CountChar(gs.rest, "?") = 1
    IN  IF u = <<"*">> THEN [NoURL EXCEPT !.err = FALSE, !.Path = u, !.Fragment = frag]
        ELSE IF gs.err THEN NoURL
        ELSE Only({ parseRest(b, IF b.ForceQuery THEN SubSeq(gs.rest, 1, Len(gs.rest) - 1)
                                 ELSE CutBefore(gs.rest, "?"))
                    : b \in {[NoURL EXCEPT !.err = FALSE, !.Scheme = ToLower(gs.scheme),
                                            !.ForceQuery = force,
                                            !.RawQuery = IF force THEN <<>> ELSE CutAfter(gs.rest, "?"),
                                            !.Fragment = frag]} })

\* url.Parse: the text before '#' is parsed, the text after it is the
\* fragment
urlParse(rawURL) ==
    Only({ parseScheme(u, CutAfter(rawURL, "#"), getScheme(u)) : u \in {CutBefore(rawURL, "#")} })

\* URL.String
urlString(u) ==
    LET schemePart == IF u.Scheme # <<>> THEN u.Scheme \o <<":">> ELSE <<>>
        authPart ==
            IF u.Scheme # <<>> \/ u.Host # <<>> \/ u.HasUser
            THEN IF u.OmitHost /\ u.Host = <<>> /\ ~u.HasUser THEN <<>>
                 ELSE (IF u.Host # <<>> \/ u.Path # <<>> \/ u.HasUser THEN <<"/","/">> ELSE <<>>)
                      \o (IF u.HasUser THEN UserinfoString(u.User) \o <<"@">> ELSE <<>>)
                      \o u.Host
            ELSE <<>>
        sep == IF u.Path # <<>> /\ u.Path[1] # "/" /\ u.Host # <<>> THEN <<"/">> ELSE <<>>
        dot == IF schemePart \o authPart \o sep = <<>> /\ IndexChar(CutBefore(u.Path, "/"), ":") # 0
               THEN <<".","/">> ELSE <<>>
        body == IF u.Opaque # <<>> THEN u.Opaque ELSE authPart \o sep \o dot \o u.Path
        queryPart == IF u.ForceQuery \/ u.RawQuery # <<>> THEN <<"?">> \o u.RawQuery ELSE <<>>
        fragPart == IF u.Fragment # <<>> THEN <<"#">> \o EscapedFragment(u.Fragment) ELSE <<>>
    IN  schemePart \o body \o queryPart \o fragPart

Str_http == <<"h","t","t","p">>
Str_https == <<"h","t","t","p","s">>

\* (?i)\.ext($|\?|#) for a three-letter extension
HasExtension(s, ext) ==
    LET l == ToLower(s)
    IN  \E i \in 1..(Len(l) - 3) :
            /\ SubSeq(l, i, i + 3) = <<".">> \o ext
            /\ (i + 3 = Len(l) \/ l[i + 4] \in {"?", "#"})

\* models.checkMaliciousURL: TRUE when one of maliciousPatterns matches
checkMaliciousURL(targetURL) ==
    \/ Contains(ToLower(targetURL), <<"j","a","v","a","s","c","r","i","p","t",":">>)
    \/ Contains(ToLower(targetURL), <<"d","a","t","a",":">>)
    \/ Contains(ToLower(targetURL), <<"v","b","s","c","r","i","p","t",":">>)
    \/ HasExtension(targetURL, <<"e","x","e">>)
    \/ HasExtension(targetURL, <<"b","a","t">>)
    \/ HasExtension(targetURL, <<"s","c","r">>)
    \/ HasExtension(targetURL, <<"z","i","p">>)

\* models.ValidateURL after url.Parse: "ok" or the name of the error returned
ValidateParsed(targetURL, parsedURL) ==
    IF parsedURL.err THEN "ErrInvalidURL"
    ELSE IF parsedURL.Scheme = <<>> THEN "ErrInvalidURL"
    ELSE IF parsedURL.Scheme # Str_http /\ parsedURL.Scheme # Str_https THEN "ErrInvalidURL"
    ELSE IF parsedURL.Host = <<>> THEN "ErrInvalidURL"
    ELSE IF checkMaliciousURL(targetURL) THEN "ErrMaliciousURL"
    ELSE "ok"

\* models.ValidateURL: "ok" or the name of the error returned
ValidateURL(targetURL) ==
    IF targetURL = <<>> THEN "ErrInvalidURL"
    ELSE IF Len(targetURL) > MaxURLLength THEN "ErrURLTooLong"
    ELSE Only({ ValidateParsed(targetURL, parsedURL) : parsedURL \in {urlParse(targetURL)} })

\* models.NormalizeURL after url.Parse, host being the lower-cased host
NormalizeParsed(parsedURL, host) ==
    IF parsedURL.err THEN [err |-> TRUE, url |-> <<>>]
    ELSE [err |-> FALSE,
          url |-> urlString([parsedURL EXCEPT
                     !.Host = IF \/ (parsedURL.Scheme = Str_http /\ HasSuffix(host, <<":","8","0">>))
                                 \/ (parsedURL.Scheme = Str_https /\ HasSuffix(host, <<":","4","4","3">>))
                              THEN CutBefore(host, ":")
                              ELSE host,
                     !.Path = IF parsedURL.Path = <<"/">> THEN <<>> ELSE parsedURL.Path])]

\* models.NormalizeURL: [err, url]
NormalizeURL(rawURL) ==
    Only({ NormalizeParsed(parsedURL, ToLower(parsedURL.Host))
           : parsedURL \in {urlParse(
                 IF ~HasPrefix(rawURL, Str_http \o <<":","/","/">>) /\ ~HasPrefix(rawURL, Str_https \o <<":","/","/">>)
                 THEN Str_https \o <<":","/","/">> \o rawURL
                 ELSE rawURL)} })

(***************************************************************************)
(* The store: tables urls and reserved_codes (schema: unnamed/part_004).   *)
(* A row of urls is [id, short_code, target_url, is_active, expires_at];   *)
(* expires_at is {} for NULL and {t} for the time t.                       *)
(***************************************************************************)
Procs == 1..NumProcs
Instances == 1..NumInstances
Times == 0..MaxTime

\* the SELECT without its WHERE clause
RowsAnyCode(store, shortCode) == store

\* SELECT ... FROM urls WHERE short_code = $1
RowsByCode(store, shortCode) == { r \in store : r.short_code = shortCode }

\* Repository.GetURLByShortCode: err is "none" (row found), "notfound"
\* (sql.ErrNoRows) or "failed" (any other database error)
GetURLByShortCode(store, shortCode, fail) ==
    IF fail THEN [err |-> "failed", rows |-> {}]
    ELSE IF RowsByCode(store, shortCode) = {} THEN [err |-> "notfound", rows |-> {}]
    ELSE [err |-> "none", rows |-> RowsByCode(store, shortCode)]

\* a repository whose reserved_codes query never finds a row
IsReservedCodeNever(reservedCodes, code, fail) == [err |-> FALSE, exists |-> FALSE]

\* Repository.IsReservedCode: SELECT EXISTS(... WHERE code = $1)
IsReservedCode(reservedCodes, code, fail) ==
    IF fail THEN [err |-> TRUE, exists |-> FALSE]
    ELSE [err |-> FALSE, exists |-> code \in reservedCodes]

\* trigger prevent_reserved_short_code, BEFORE INSERT OR UPDATE ON urls
prevent_reserved_short_code(reservedCodes, shortCode) == shortCode \in reservedCodes

\* the table without its unique index: no insert is ever refused
NoUniqueIndex(store, shortCode) == FALSE

\* unique index urls_short_code_uniq
urls_short_code_uniq(store, shortCode) == \E r \in store : r.short_code = shortCode

\* Repository.CreateURL: what the INSERT answers: "ok", "unique_violation",
\* or "failed" (the trigger's exception or any other database error)
CreateURL(store, reservedCodes, shortCode, fail) ==
    IF fail THEN "failed"
    ELSE IF prevent_reserved_short_code(reservedCodes, shortCode) THEN "failed"
    ELSE IF urls_short_code_uniq(store, shortCode) THEN "unique_violation"
    ELSE "ok"

\* Repository.UpdateURL: UPDATE urls SET target_url, is_active, expires_at
\* WHERE id = $1; [err, store]
UpdateURL(store, reservedCodes, url, fail) ==
    LET hit == { r \in store : r.id = url.id }
    IN  IF fail THEN [err |-> "failed", store |-> store]
        ELSE IF \E r \in hit : prevent_reserved_short_code(reservedCodes, r.short_code)
             THEN [err |-> "failed", store |-> store]
        ELSE IF hit = {} THEN [err |-> "notfound", store |-> store]
        ELSE [err |-> "none",
              store |-> (store \ hit) \cup
                        { [r EXCEPT !.target_url = url.target_url,
                                    !.is_active = url.is_active,
                                    !.expires_at = url.expires_at] : r \in hit }]

\* a deactivation that deletes the row instead of clearing is_active
DeactivateURLDeletes(store, reservedCodes, shortCode, fail) ==
    LET hit == RowsByCode(store, shortCode)
    IN  IF fail THEN [err |-> "failed", store |-> store]
        ELSE IF hit = {} THEN [err |-> "notfound", store |-> store]
        ELSE [err |-> "none", store |-> store \ hit]

\* Repository.DeactivateURL: UPDATE urls SET is_active = false WHERE short_code = $1
DeactivateURL(store, reservedCodes, shortCode, fail) ==
    LET hit == RowsByCode(store, shortCode)
    IN  IF fail THEN [err |-> "failed", store |-> store]
        ELSE IF \E r \in hit : prevent_reserved_short_code(reservedCodes, r.short_code)
             THEN [err |-> "failed", store |-> store]
        ELSE IF hit = {} THEN [err |-> "notfound", store |-> store]
        ELSE [err |-> "none",
              store |-> (store \ hit) \cup { [r EXCEPT !.is_active = FALSE] : r \in hit }]

\* a clean-up whose statement compares with expires_at <= $1
CleanupExpiredURLsInclusive(store, reservedCodes, t, fail) ==
    LET hit == { r \in store : r.is_active /\ \E e \in r.expires_at : e <= t }
    IN  [err |-> "none", count |-> Cardinality(hit),
         store |-> (store \ hit) \cup { [r EXCEPT !.is_active = FALSE] : r \in hit }]

\* Repository.CleanupExpiredURLs: UPDATE urls SET is_active = false WHERE
\* expires_at IS NOT NULL AND expires_at < $1 AND is_active = true
CleanupExpiredURLs(store, reservedCodes, t, fail) ==
    LET hit == { r \in store : r.is_active /\ \E e \in r.expires_at : e < t }
    IN  IF fail THEN [err |-> "failed", count |-> 0, store |-> store]
        ELSE IF \E r \in hit : prevent_reserved_short_code(reservedCodes, r.short_code)
             THEN [err |-> "failed", count |-> 0, store |-> store]
        ELSE [err |-> "none", count |-> Cardinality(hit),
              store |-> (store \ hit) \cup { [r EXCEPT !.is_active = FALSE] : r \in hit }]

(***************************************************************************)
(* models/url.go: lifecycle predicates, evaluated at the time t that       *)
(* time.Now() returns                                                      *)
(***************************************************************************)
\* URL.IsExpired
IsExpired(u, t) == \E e \in u.expires_at : t > e

\* accessibility that forgets the expiry
IsAccessibleActiveOnly(u, t) == u.is_active

\* URL.IsAccessible
IsAccessible(u, t) == u.is_active /\ ~IsExpired(u, t)

(***************************************************************************)
(* Service logic (shortener service, unnamed/part_002)                     *)
(***************************************************************************)
\* the loop test off by one: attempt <= MaxRetries
RetryLoopInclusive(attempt) == attempt <= MaxRetries

\* generateUniqueCode: the loop condition attempt < s.config.MaxRetries
RetryLoopContinues(attempt) == attempt < MaxRetries

\* a resolver that takes the candidate whatever the lookup answered
CandidateFreeAlways(err) == TRUE

\* generateUniqueCode: "if err != nil { return code, nil }" after
\* s.repo.GetURLByShortCode(ctx, code)
CandidateFree(err) == err # "none"

\* generateUniqueCode: collisionCount >= s.config.CollisionThreshold
ShouldGrow(collisionCount) == collisionCount >= CollisionThreshold

\* a GetURLForRedirect that answers a code failing IsValidCode without
\* asking the store
GetURLForRedirect_LookupValidOnly(store, shortCode, fail) ==
    IF IsValidCode(shortCode)
    THEN [lookups |-> 1, res |-> GetURLByShortCode(store, shortCode, fail)]
    ELSE [lookups |-> 0, res |-> [err |-> "notfound", rows |-> {}]]

\* GetURLForRedirect, up to the store lookup: the number of store lookups
\* made for the code and what the lookup answered
GetURLForRedirect_Lookup(store, shortCode, fail) ==
    [lookups |-> 1, res |-> GetURLByShortCode(store, shortCode, fail)]

\* GetURLForRedirect, inside "if !url.IsAccessible()": the error chosen for
\* the row read, url.IsExpired() being evaluated at time t
InaccessibleReason(u, t) ==
    IF IsExpired(u, t) THEN "ErrURLExpired" ELSE "ErrURLInactive"

\* UpdateURL, "Apply updates": fields absent from the request (empty target,
\* nil is_active, nil expires_at) keep the value read from the store
ApplyUpdate(u, target, isActive, expiresAt) ==
    [u EXCEPT !.target_url = IF target # <<>> THEN target ELSE @,
              !.is_active = IF isActive = "true" THEN TRUE
                            ELSE IF isActive = "false" THEN FALSE ELSE @,
              !.expires_at = IF expiresAt # {} THEN expiresAt ELSE @]

(***************************************************************************)
(* Inputs of the requests                                                  *)
(***************************************************************************)
\* "http://A.co:80/", normalized to "http://a.co"
URL_A == <<"h","t","t","p",":","/","/","A",".","c","o",":","8","0","/">>
\* "https://b.co/p"
URL_B == <<"h","t","t","p","s",":","/","/","b",".","c","o","/","p">>
\* "a.co": no scheme, rejected by ValidateURL
URL_NoScheme == <<"a",".","c","o">>

CreateURLInputs == {URL_A, URL_NoScheme}
UpdateTargetInputs == {<<>>, URL_B}

\* a validator that accepts every target
ValidateURLAccepts == [u \in CreateURLInputs \cup UpdateTargetInputs |-> "ok"]

\* the validator and the normalizer on the inputs, evaluated once
ValidateURLOf == [u \in CreateURLInputs \cup UpdateTargetInputs |-> ValidateURL(u)]
NormalizeURLOf == [u \in CreateURLInputs \cup UpdateTargetInputs |-> NormalizeURL(u)]

\* "ab": a custom code that IsValidCode rejects (shorter than 4)
Code_ab == <<"a","b">>
\* all-'a' codes of length 7, 8, 9: what Generate returns for the value 0
Code_a7 == toBase62(0, DefaultCodeLength)
Code_a8 == toBase62(0, DefaultCodeLength + 1)
Code_a9 == toBase62(0, DefaultCodeLength + 2)

CustomCodeInputs == {Code_ab, Code_a7, Code_a8, Code_a9}
LookupCodeInputs == {Code_ab, Code_a7}
ReservedCodeInputs == {Code_ab}
ExpiryInputs == {{}} \cup { {t} : t \in 0..(MaxTime - 1) }
IsActiveInputs == {"nil", "true", "false"}
RandValues == 0..MaxRand

\* the click context of a redirect: none, one without and one with DNT: 1
ClickCtxInputs == {"nil", "plain", "dnt"}
\* the shards rand.Intn(64) returns in the model: the first and the last
ShardInputs == {0, NumShards - 1}

(***************************************************************************)
(* Click recording                                                         *)
(***************************************************************************)
\* a recording that runs on the context of the request
asyncCtxOfRequest(requestCtx) == requestCtx

\* asyncCtx := context.Background()
asyncCtx(requestCtx) == "background"

\* the goroutine GetURLForRedirect starts: the link, the click context, the
\* context it runs on, whether the request's context has been cancelled, its
\* position, the error it logs, the click event it inserted, and the outcome
\* of the counter update
NewTask(urlID, clickCtx) ==
    [url_id |-> urlID, clickCtx |-> clickCtx, ctx |-> asyncCtx("request"),
     requestDone |-> FALSE, pc |-> "record", err |-> "none", event |-> 0,
     skipped |-> FALSE, counterErr |-> "none", counted |-> FALSE,
     requestDoneAtInsert |-> FALSE, counterTried |-> FALSE, via |-> "redirect"]

\* the call of recordClickAsync that service.RecordClick makes itself, on the
\* context of its caller
CallerTask(urlID, clickCtx) ==
    [NewTask(urlID, clickCtx) EXCEPT !.ctx = "request", !.via = "service"]

\* a recorder that does not look at the DNT header
DNTIgnored(clickCtx) == FALSE

\* recordClickAsync: s.config.RespectDNT && clickCtx.DNTHeader
DNTSkips(clickCtx) == RespectDNT /\ clickCtx = "dnt"

\* a recording that goes on to the counter update after a failed insert
RecordClickFailedGoesOn(t, e) == [t EXCEPT !.pc = "counter", !.err = e]

\* recordClickAsync: if err := s.repo.RecordClick(...); err != nil { return
\* fmt.Errorf("failed to record click: %w", err) }
RecordClickFailed(t, e) == [t EXCEPT !.pc = "done", !.err = e]

\* ctx.Done() is closed for the context the goroutine passes to the store
CtxDone(t) == t.ctx = "request" /\ t.requestDone

\* Repository.RecordClick: INSERT INTO click_events ... RETURNING id
RecordClick(events, urlID) ==
    events \cup {[id |-> Cardinality(events) + 1, url_id |-> urlID]}

\* Repository.UpdateCounterShards: INSERT ... ON CONFLICT (url_id, shard_id)
\* DO UPDATE SET clicks = clicks + 1
\* a counter update whose conflict target is the shard alone
UpdateCounterShardsByShard(rows, urlID, shardID) ==
    LET hit == { c \in rows : c.shard_id = shardID }
    IN  IF hit = {}
        THEN rows \cup {[url_id |-> urlID, shard_id |-> shardID, clicks |-> 1]}
        ELSE (rows \ hit) \cup { [c EXCEPT !.clicks = @ + 1] : c \in hit }

UpdateCounterShards(rows, urlID, shardID) ==
    LET hit == { c \in rows : c.url_id = urlID /\ c.shard_id = shardID }
    IN  IF hit = {}
        THEN rows \cup {[url_id |-> urlID, shard_id |-> shardID, clicks |-> 1]}
        ELSE (rows \ hit) \cup { [c EXCEPT !.clicks = @ + 1] : c \in hit }

\* a redirect that reports the error of the recording when it has one
RedirectResultPropagates(r, t) ==
    IF t.err # "none"
    THEN [r EXCEPT !.pc = "done", !.result = "RecordClickFailed", !.out = <<>>, !.id = 0]
    ELSE [r EXCEPT !.pc = "done", !.result = "ok"]

\* GetURLForRedirect's "return url, nil": the goroutine t is not consulted
RedirectResult(r, t) == [r EXCEPT !.pc = "done", !.result = "ok"]

(***************************************************************************)
(* State                                                                   *)
(***************************************************************************)
VARIABLES
    urls,       \* table urls
    nextID,     \* the bigserial sequence of urls.id
    reserved,   \* table reserved_codes
    now,        \* the clock time.Now() reads
    generator,  \* per service instance: s.generator.codeLength
    req,        \* per process: the request in flight and its local variables
    resp,       \* the response returned last, with what its request observed
    started,    \* requests started so far
    origin,     \* history: [id, code, target] of every successful creation
    updated,    \* history: ids whose row an UpdateURL has written
    retired,    \* history: codes whose DeactivateURL returned success and that
                \* no UpdateURL carrying is_active = true has written since
    tasks,      \* the click-recording goroutines started so far, in order
    click_events,   \* table click_events: [id, url_id]
    counters,   \* table url_counters_live: [url_id, shard_id, clicks]
    cache,      \* the LRU: capacity, ttl, items (keys of the map), order (the list)
    cacheHist,  \* history: the last call on the LRU and what it observed
    limiter,    \* the RateLimiter: rate, window, clients
    limiterHist,    \* history: the last call of Allow and the grants so far
    clock       \* the clock time.Now() reads in the cache and the limiter

vars == <<urls, nextID, reserved, now, generator, req, resp, started, origin, updated, retired,
          tasks, click_events, counters, cache, cacheHist, limiter, limiterHist, clock>>

(***************************************************************************)
(* cache.LRU: every method holds c.mu for its whole body, so a call is one *)
(* step.  The list is a sequence, front first; the map is kept as the set  *)
(* of its keys, a key's element being the list element that carries it.    *)
(***************************************************************************)
\* NewLRU(capacity, ttl)
NewLRU(capacity, ttl) ==
    [capacity |-> capacity, ttl |-> ttl, items |-> {}, order |-> <<>>]

\* list.Remove of the element at position i
RemoveAt(order, i) ==
    [j \in 1..(Len(order) - 1) |-> IF j < i THEN order[j] ELSE order[j + 1]]

\* list.MoveToFront of the element at position i
MoveToFront(order, i) == <<order[i]>> \o RemoveAt(order, i)

\* c.items[key]: the position of the element the map holds for key
ElementOf(c, key) == CHOOSE i \in 1..Len(c.order) : c.order[i].key = key

\* a removal that takes the element off the list and leaves its key in the map
removeElementKeepsKey(c, i) == [c EXCEPT !.order = RemoveAt(@, i)]

\* LRU.removeElement: c.order.Remove(elem); delete(c.items, ent.key)
removeElement(c, i) ==
    [c EXCEPT !.order = RemoveAt(@, i), !.items = @ \ {c.order[i].key}]

\* an eviction that removes the element at the front of the list
evictNewest(c) == IF Len(c.order) = 0 THEN c ELSE removeElement(c, 1)

\* LRU.evictOldest: c.order.Back(), removed when there is one
evictOldest(c) == IF Len(c.order) = 0 THEN c ELSE removeElement(c, Len(c.order))

\* a test of expiry that every entry passes
ExpiredNever(ent, t) == FALSE

\* LRU.Get: time.Now().After(ent.expiresAt)
Expired(ent, t) == t > ent.expiresAt

\* LRU.Get(key) at time t: the cache afterwards, the value and the flag
LRUGet(c, key, t) ==
    IF key \notin c.items THEN [cache |-> c, value |-> 0, ok |-> FALSE]
    ELSE IF Expired(c.order[ElementOf(c, key)], t)
         THEN [cache |-> removeElement(c, ElementOf(c, key)), value |-> 0, ok |-> FALSE]
    ELSE [cache |-> [c EXCEPT !.order = MoveToFront(@, ElementOf(c, key))],
          value |-> c.order[ElementOf(c, key)].value, ok |-> TRUE]

\* LRU.Set(key, value) at time t
LRUSet(c, key, value, t) ==
    IF key \in c.items
    THEN [c EXCEPT !.order =
             <<[key |-> key, value |-> value, expiresAt |-> t + c.ttl]>>
             \o RemoveAt(c.order, ElementOf(c, key))]
    ELSE [(IF Len(c.order) >= c.capacity THEN evictOldest(c) ELSE c) EXCEPT
             !.order = <<[key |-> key, value |-> value, expiresAt |-> t + c.ttl]>> \o @,
             !.items = @ \cup {key}]

\* LRU.Delete(key)
LRUDelete(c, key) ==
    IF key \in c.items THEN removeElement(c, ElementOf(c, key)) ELSE c

\* LRU.Len()
LRULen(c) == Len(c.order)

\* NewRateLimiter(rate, window)
NewRateLimiter(rate, window) ==
    [rate |-> rate, window |-> window, clients |-> [ip \in {} |-> 0]]

\* no call on the LRU yet
NoCacheCall ==
    [op |-> "none", key |-> "", value |-> 0, ok |-> FALSE, at |-> 0, calls |-> 0,
     before |-> NewLRU(0, 0), lastSet |-> [k \in {} |-> 0], lastUse |-> [k \in {} |-> 0],
     usedBefore |-> [k \in {} |-> 0]]

\* a test for tokens that still passes when none is left
TokensAvailableAtZero(c) == c.tokens >= 0

\* RateLimiter.Allow: if c.tokens > 0
TokensAvailable(c) == c.tokens > 0

\* RateLimiter.Allow(ip) at time t: the limiter afterwards and the answer
Allow(rl, ip, t) ==
    IF ip \notin DOMAIN rl.clients
    THEN [limiter |-> [rl EXCEPT !.clients =
                          [i \in DOMAIN rl.clients \cup {ip} |->
                              IF i = ip THEN [tokens |-> rl.rate - 1, lastReset |-> t]
                              ELSE rl.clients[i]]],
          ok |-> TRUE]
    ELSE IF t - rl.clients[ip].lastReset >= rl.window
    THEN [limiter |-> [rl EXCEPT !.clients[ip] = [tokens |-> rl.rate - 1, lastReset |-> t]],
          ok |-> TRUE]
    ELSE IF TokensAvailable(rl.clients[ip])
    THEN [limiter |-> [rl EXCEPT !.clients[ip].tokens = @ - 1], ok |-> TRUE]
    ELSE [limiter |-> rl, ok |-> FALSE]

\* RateLimiter.RemainingTokens(ip) at time t
RemainingTokens(rl, ip, t) ==
    IF ip \notin DOMAIN rl.clients THEN rl.rate
    ELSE IF t - rl.clients[ip].lastReset >= rl.window THEN rl.rate
    ELSE rl.clients[ip].tokens

\* RateLimiter.cleanup_stale at time t: every entry whose lastReset is before
\* t - 2 * window is deleted
cleanup_stale(rl, t) ==
    [rl EXCEPT !.clients =
        [i \in { j \in DOMAIN rl.clients : ~(rl.clients[j].lastReset < t - 2 * rl.window) } |->
            rl.clients[i]]]

\* no call on the limiter yet
NoLimiterCall ==
    [op |-> "none", ip |-> "", ok |-> FALSE, value |-> 0, at |-> 0, calls |-> 0,
     before |-> NewRateLimiter(0, 0), seen |-> [i \in {} |-> 0],
     uncleaned |-> NewRateLimiter(0, 0), okUncleaned |-> FALSE,
     grants |-> [i \in {} |-> <<>>]]

IdleReq ==
    [op |-> "none", pc |-> "idle", inst |-> 1, shortCode |-> <<>>, url |-> <<>>,
     isActive |-> "nil", expiresAt |-> {}, code |-> <<>>, target |-> <<>>,
     attempt |-> 0, collisionCount |-> 0, newLength |-> 0, len0 |-> 0, grows |-> 0,
     lookups |-> 0, generated |-> 0, rows |-> {}, lookupAt |-> 0, checkAt |-> 0,
     whyAt |-> 0,
     storeErr |-> "none", result |-> "", out |-> <<>>, id |-> 0, sawRetired |-> FALSE,
     alone |-> TRUE, randomValue |-> 0, writes |-> 0, reservedSeen |-> {},
     reservedAt |-> {}, clickCtx |-> "nil", task |-> 0, batchCount |-> 0,
     batch |-> <<>>, valid |-> "", result2 |-> "", out2 |-> <<>>, cands |-> <<>>,
     at |-> 0, after |-> {}, count |-> 0, again |-> FALSE,
     status |-> 0, steps |-> <<>>, expired |-> FALSE, pendingAtClose |-> FALSE,
     codeLength |-> 0]

Finish(r, res) == [r EXCEPT !.pc = "done", !.result = res]

\* end of one iteration of the retry loop: attempt++ and the loop test
NextAttempt(r) ==
    IF RetryLoopContinues(r.attempt + 1)
    THEN [r EXCEPT !.attempt = @ + 1, !.pc = "generate"]
    ELSE Finish([r EXCEPT !.attempt = @ + 1], "ErrTooManyRetries")

CanStart(p) == started < MaxOps /\ req[p].pc = "idle"

\* the requests in flight when another one starts are no longer alone
Overlapped(q) == [q EXCEPT !.alone = (q.pc = "idle")]

\* a request record for process p starting now
NewReq(p) == [IdleReq EXCEPT !.alone = \A q \in Procs \ {p} : req[q].pc = "idle"]

\* process p starts with record r: a record that is already finished is the
\* response, and p stays idle
Start(p, r) ==
    /\ started' = started + 1
    /\ req' = [q \in Procs |-> IF q = p THEN (IF r.pc = "done" THEN IdleReq ELSE r)
                                ELSE Overlapped(req[q])]
    /\ resp' = IF r.pc = "done" THEN r ELSE resp

\* process p moves on to record r, or returns it as the response
Step(p, r) ==
    /\ req' = [req EXCEPT ![p] = IF r.pc = "done" THEN IdleReq ELSE r]
    /\ resp' = IF r.pc = "done" THEN r ELSE resp

Init ==
    /\ urls = {}
    /\ nextID = 1
    /\ reserved = {}
    /\ now = 0
    /\ generator = [i \in Instances |-> DefaultCodeLength]
    /\ req = [p \in Procs |-> IdleReq]
    /\ resp = IdleReq
    /\ started = 0
    /\ origin = {}
    /\ updated = {}
    /\ retired = {}
    /\ tasks = <<>>
    /\ click_events = {}
    /\ counters = {}
    /\ cache = NewLRU(1, 1)
    /\ cacheHist = NoCacheCall
    /\ limiter = NewRateLimiter(1, 1)
    /\ limiterHist = NoLimiterCall
    /\ clock = 0

(***************************************************************************)
(* CreateShortURL                                                          *)
(***************************************************************************)
\* validation and normalization of the target, models.ValidateCustomCode of
\* the custom code: no shared state is read
CreateStart(p, inst, url, custom, exp) ==
    LET base == [NewReq(p) EXCEPT !.op = "create", !.inst = inst, !.url = url,
                                !.shortCode = custom, !.expiresAt = exp,
                                !.len0 = generator[inst]]
        n == NormalizeURLOf[url]
        ready == [base EXCEPT !.target = n.url]
    IN  /\ CanStart(p)
        /\ Start(p,
              IF ValidateURLOf[url] # "ok" THEN Finish(base, ValidateURLOf[url])
              ELSE IF n.err THEN Finish(base, "NormalizeFailed")
              ELSE IF custom # <<>>
                   THEN IF ValidateCustomCode(custom) # "ok"
                        THEN Finish(ready, ValidateCustomCode(custom))
                        ELSE [ready EXCEPT !.pc = "isReserved"]
              ELSE IF RetryLoopContinues(0) THEN [ready EXCEPT !.pc = "generate"]
              ELSE Finish(ready, "ErrTooManyRetries"))
        /\ UNCHANGED <<cache, cacheHist, limiter, limiterHist, clock, urls, nextID, reserved, now, generator, origin, updated, retired,
                   tasks, click_events, counters>>

\* service.ValidateCustomCode: s.repo.IsReservedCode
CustomIsReserved(p, fail) ==
    LET r == req[p]
        a == IsReservedCode(reserved, r.shortCode, fail)
    IN  /\ r.pc = "isReserved"
        /\ Step(p,
              IF a.err THEN Finish(r, "ReservedCheckFailed")
              ELSE IF a.exists THEN Finish([r EXCEPT !.reservedSeen = reserved], "ErrReservedCode")
              ELSE [r EXCEPT !.reservedSeen = reserved, !.pc = "customLookup"])
        /\ UNCHANGED <<cache, cacheHist, limiter, limiterHist, clock, urls, nextID, reserved, now, generator, started, origin, updated, retired,
                   tasks, click_events, counters>>

\* service.ValidateCustomCode: s.repo.GetURLByShortCode; only err == nil
\* means taken
CustomLookup(p, fail) ==
    LET r == req[p]
        g == GetURLByShortCode(urls, r.shortCode, fail)
        r1 == [r EXCEPT !.lookups = @ + 1,
                        !.cands = Append(@, [code |-> r.shortCode, answer |-> g.err])]
    IN  /\ r.pc = "customLookup"
        /\ Step(p,
              IF g.err = "none" THEN Finish(r1, "ErrCustomCodeTaken")
              ELSE [r1 EXCEPT !.code = r.shortCode, !.pc = "insert"])
        /\ UNCHANGED <<cache, cacheHist, limiter, limiterHist, clock, urls, nextID, reserved, now, generator, started, origin, updated, retired,
                   tasks, click_events, counters>>

\* generateUniqueCode: s.generator.Generate() with the random value v
GenerateStep(p, v) ==
    LET r == req[p]
    IN  /\ r.pc = "generate"
        /\ InKeyspace(v, generator[r.inst])
        /\ Step(p,
              [r EXCEPT !.code = Generate(generator[r.inst], v),
                        !.generated = @ + 1, !.pc = "lookup"])
        /\ UNCHANGED <<cache, cacheHist, limiter, limiterHist, clock, urls, nextID, reserved, now, generator, started, origin, updated, retired,
                   tasks, click_events, counters>>

\* generateUniqueCode: the random source fails
GenerateFail(p) ==
    /\ req[p].pc = "generate"
    /\ Step(p, Finish([req[p] EXCEPT !.generated = @ + 1], "ErrRandomGeneration"))
    /\ UNCHANGED <<cache, cacheHist, limiter, limiterHist, clock, urls, nextID, reserved, now, generator, started, origin, updated, retired,
                   tasks, click_events, counters>>

\* generateUniqueCode: s.repo.GetURLByShortCode(code); any error means
\* "Code doesn't exist, we can use it"; otherwise a collision is counted
LookupStep(p, fail) ==
    LET r == req[p]
        g == GetURLByShortCode(urls, r.code, fail)
        r1 == [r EXCEPT !.lookups = @ + 1,
                        !.cands = Append(@, [code |-> r.code, answer |-> g.err])]
        r2 == [r1 EXCEPT !.collisionCount = @ + 1]
    IN  /\ r.pc = "lookup"
        /\ Step(p,
              IF CandidateFree(g.err) THEN [r1 EXCEPT !.pc = "insert"]
              ELSE IF ShouldGrow(r2.collisionCount) THEN [r2 EXCEPT !.pc = "grow"]
              ELSE NextAttempt(r2))
        /\ UNCHANGED <<cache, cacheHist, limiter, limiterHist, clock, urls, nextID, reserved, now, generator, started, origin, updated, retired,
                   tasks, click_events, counters>>

\* generateUniqueCode: NewGeneratorWithLength(s.generator.GetCodeLength() + 1)
GrowRead(p) ==
    LET r == req[p]
        g == NewGeneratorWithLength(generator[r.inst] + 1)
    IN  /\ r.pc = "grow"
        /\ Step(p,
              IF g.ok THEN [r EXCEPT !.newLength = g.codeLength, !.pc = "growStore"]
              ELSE NextAttempt(r))
        /\ UNCHANGED <<cache, cacheHist, limiter, limiterHist, clock, urls, nextID, reserved, now, generator, started, origin, updated, retired,
                   tasks, click_events, counters>>

\* generateUniqueCode: s.generator = newGenerator
GrowStore(p) ==
    LET r == req[p]
    IN  /\ r.pc = "growStore"
        /\ generator' = [generator EXCEPT ![r.inst] = r.newLength]
        /\ Step(p, NextAttempt([r EXCEPT !.grows = @ + 1]))
        /\ UNCHANGED <<cache, cacheHist, limiter, limiterHist, clock, urls, nextID, reserved, now, started, origin, updated, retired,
                   tasks, click_events, counters>>

\* CreateShortURL: s.repo.CreateURL(url); any error fails the request with
\* "failed to create URL"
InsertStep(p, fail) ==
    LET r == req[p]
        o == CreateURL(urls, reserved, r.code, fail)
        row == [id |-> nextID, short_code |-> r.code, target_url |-> r.target,
                is_active |-> TRUE, expires_at |-> r.expiresAt]
    IN  /\ r.pc = "insert"
        /\ nextID' = IF fail THEN nextID ELSE nextID + 1
        /\ urls' = IF o = "ok" THEN urls \cup {row} ELSE urls
        /\ origin' = IF o = "ok" THEN origin \cup {[id |-> nextID, code |-> r.code, target |-> r.target]} ELSE origin
        /\ Step(p,
              IF o = "ok"
              THEN Finish([r EXCEPT !.id = nextID, !.out = r.target, !.writes = @ + 1,
                                    !.reservedAt = reserved], "ok")
              ELSE Finish([r EXCEPT !.storeErr = o, !.reservedAt = reserved], "CreateFailed"))
        /\ UNCHANGED <<cache, cacheHist, limiter, limiterHist, clock, reserved, now, generator, started, updated, retired,
                   tasks, click_events, counters>>

(***************************************************************************)
(* Database Service.TestConnection (GET /db-test)                          *)
(***************************************************************************)
\* TestConnection, "Test 3": BeginTx, INSERT INTO urls (short_code,
\* target_url, is_active) VALUES ('test_<unix time>', ...) and
\* tx.Rollback(). The row is never committed, whatever the INSERT answered
\* (accepted, refused by the unique index or by the trigger), so urls is
\* left as it was; the statement draws its id from the sequence of urls.id
\* unless the ping, BeginTx or the statement failed before reaching the
\* table (fail), and a value drawn from a sequence is not given back by the
\* rollback. The counts, the health check and the result map answered to
\* the handler write nothing.
TestConnection(fail) ==
    /\ started < MaxOps
    /\ started' = started + 1
    /\ nextID' = IF fail THEN nextID ELSE nextID + 1
    /\ UNCHANGED <<cache, cacheHist, limiter, limiterHist, clock, urls, reserved, now, generator, req, resp, origin, updated, retired,
                   tasks, click_events, counters>>

(***************************************************************************)
(* GetURLForRedirect                                                       *)
(***************************************************************************)
\* s.repo.GetURLByShortCode(ctx, shortCode); any error is ErrURLNotFound
RedirectLookup(p, shortCode, clickCtx, fail) ==
    LET g == GetURLForRedirect_Lookup(urls, shortCode, fail)
        base == [NewReq(p) EXCEPT !.op = "redirect", !.shortCode = shortCode,
                                !.clickCtx = clickCtx,
                                !.lookups = g.lookups, !.lookupAt = now,
                                !.sawRetired = (shortCode \in retired)]
    IN  /\ CanStart(p)
        /\ Start(p,
              IF g.res.err # "none" THEN Finish(base, "ErrURLNotFound")
              ELSE [base EXCEPT !.rows = g.res.rows, !.pc = "redirectCheck"])
        /\ UNCHANGED <<cache, cacheHist, limiter, limiterHist, clock, urls, nextID, reserved, now, generator, origin, updated, retired,
                   tasks, click_events, counters>>

\* url.IsAccessible() on the row read, at the time time.Now() returns; for
\* an accessible row, "go func() {...}()" starts the click recording when
\* analytics is enabled and a click context was given
RedirectCheck(p) ==
    LET r == req[p]
        u == CHOOSE x \in r.rows : TRUE
        r1 == [r EXCEPT !.checkAt = now]
        r2 == [r1 EXCEPT !.id = u.id, !.out = u.target_url]
        spawn == EnableAnalytics /\ r.clickCtx # "nil"
    IN  /\ r.pc = "redirectCheck"
        /\ tasks' = IF IsAccessible(u, now) /\ spawn
                     THEN Append(tasks, NewTask(u.id, r.clickCtx))
                     ELSE tasks
        /\ Step(p,
              IF ~IsAccessible(u, now) THEN [r1 EXCEPT !.pc = "redirectWhy"]
              ELSE IF spawn THEN [r2 EXCEPT !.task = Len(tasks) + 1, !.pc = "redirectReturn"]
              ELSE Finish(r2, "ok"))
        /\ UNCHANGED <<cache, cacheHist, limiter, limiterHist, clock, urls, nextID, reserved, now, generator, started, origin, updated, retired,
                       click_events, counters>>

\* "return url, nil" after the goroutine was started
RedirectReturn(p) ==
    LET r == req[p]
    IN  /\ r.pc = "redirectReturn"
        /\ Step(p, RedirectResult(r, tasks[r.task]))
        /\ UNCHANGED <<cache, cacheHist, limiter, limiterHist, clock, urls, nextID, reserved, now, generator, started, origin, updated, retired,
                       tasks, click_events, counters>>

\* the row is not accessible: url.IsExpired(), a second reading of the
\* clock, chooses between ErrURLExpired and ErrURLInactive
RedirectWhy(p) ==
    LET r == req[p]
        u == CHOOSE x \in r.rows : TRUE
    IN  /\ r.pc = "redirectWhy"
        /\ Step(p, Finish([r EXCEPT !.whyAt = now], InaccessibleReason(u, now)))
        /\ UNCHANGED <<cache, cacheHist, limiter, limiterHist, clock, urls, nextID, reserved, now, generator, started, origin, updated, retired,
                   tasks, click_events, counters>>

(***************************************************************************)
(* UpdateURL and DeactivateURL                                             *)
(***************************************************************************)
\* UpdateURL: the row is read, the request's fields are validated and
\* applied to the copy read
UpdateStart(p, shortCode, target, isActive, exp, fail) ==
    LET g == GetURLByShortCode(urls, shortCode, fail)
        base == [NewReq(p) EXCEPT !.op = "update", !.shortCode = shortCode, !.url = target,
                                !.isActive = isActive, !.expiresAt = exp, !.lookups = 1]
        n == NormalizeURLOf[target]
        u == CHOOSE x \in g.rows : TRUE
    IN  /\ CanStart(p)
        /\ Start(p,
              IF g.err # "none" THEN Finish(base, "ErrURLNotFound")
              ELSE IF target # <<>> /\ ValidateURLOf[target] # "ok"
                   THEN Finish(base, ValidateURLOf[target])
              ELSE IF target # <<>> /\ n.err THEN Finish(base, "NormalizeFailed")
              ELSE [base EXCEPT !.rows = {ApplyUpdate(u, IF target # <<>> THEN n.url ELSE <<>>,
                                                      isActive, exp)},
                                !.pc = "updateWrite"])
        /\ UNCHANGED <<cache, cacheHist, limiter, limiterHist, clock, urls, nextID, reserved, now, generator, origin, updated, retired,
                   tasks, click_events, counters>>

\* UpdateURL: s.repo.UpdateURL(ctx, url) writes the three columns of the copy
UpdateWrite(p, fail) ==
    LET r == req[p]
        u == CHOOSE x \in r.rows : TRUE
        o == UpdateURL(urls, reserved, u, fail)
    IN  /\ r.pc = "updateWrite"
        /\ urls' = o.store
        /\ updated' = IF o.err = "none" THEN updated \cup {u.id} ELSE updated
        /\ retired' = IF o.err = "none" /\ r.isActive = "true"
                      THEN retired \ {r.shortCode} ELSE retired
        /\ Step(p,
              IF o.err = "none"
              THEN Finish([r EXCEPT !.id = u.id, !.out = u.target_url, !.writes = @ + 1], "ok")
              ELSE Finish([r EXCEPT !.storeErr = o.err], "UpdateFailed"))
        /\ UNCHANGED <<cache, cacheHist, limiter, limiterHist, clock, nextID, reserved, now, generator, started, origin,
                   tasks, click_events, counters>>

\* Handler.DeleteURL: the HTTP status answered for the result of
\* service.DeactivateURL; only the error value ErrURLNotFound itself gives 404
DeleteURLStatus(shortCode, result) ==
    IF shortCode = <<>> THEN 400
    ELSE IF result = "ok" THEN 200
    ELSE IF result = "ErrURLNotFound" THEN 404
    ELSE 500

\* DeactivateURL: s.repo.DeactivateURL(ctx, shortCode); any error is wrapped
\* as "failed to deactivate URL"
Deactivate(p, shortCode, fail) ==
    LET o == DeactivateURL(urls, reserved, shortCode, fail)
        base == [NewReq(p) EXCEPT !.op = "deactivate", !.shortCode = shortCode]
    IN  /\ CanStart(p)
        /\ urls' = o.store
        /\ retired' = IF o.err = "none" THEN retired \cup {shortCode} ELSE retired
        /\ Start(p,
              IF o.err = "none"
              THEN Finish([base EXCEPT !.writes = @ + 1,
                                       !.status = DeleteURLStatus(shortCode, "ok")], "ok")
              ELSE Finish([base EXCEPT !.storeErr = o.err,
                                       !.status = DeleteURLStatus(shortCode, "DeactivateFailed")],
                          "DeactivateFailed"))
        /\ UNCHANGED <<cache, cacheHist, limiter, limiterHist, clock, nextID, reserved, now, generator, origin, updated,
                   tasks, click_events, counters>>

(***************************************************************************)
(* The click-recording goroutine                                           *)
(***************************************************************************)
\* recordClickAsync up to s.repo.RecordClick: "if !s.config.EnableAnalytics
\* || clickCtx == nil { return nil }", the DNT test, then the insert of the
\* click event on the context of the call; an error is returned to the
\* caller (the goroutine, which logs it, or service.RecordClick)
ClickRecord(i, fail) ==
    LET t == tasks[i]
        t1 == [t EXCEPT !.requestDoneAtInsert = t.requestDone]
        insert == /\ EnableAnalytics /\ t.clickCtx # "nil"
                  /\ ~DNTSkips(t.clickCtx) /\ ~CtxDone(t) /\ ~fail
    IN  /\ t.pc = "record"
        /\ click_events' = IF insert THEN RecordClick(click_events, t.url_id)
                            ELSE click_events
        /\ tasks' = [tasks EXCEPT ![i] =
              IF ~EnableAnalytics \/ t.clickCtx = "nil" THEN [t EXCEPT !.pc = "done"]
              ELSE IF DNTSkips(t.clickCtx)
                   THEN [t EXCEPT !.pc = "done", !.skipped = TRUE]
              ELSE IF CtxDone(t) THEN RecordClickFailed(t1, "canceled")
              ELSE IF fail THEN RecordClickFailed(t1, "failed")
              ELSE [t1 EXCEPT !.pc = "counter", !.event = Cardinality(click_events) + 1]]
        /\ UNCHANGED <<cache, cacheHist, limiter, limiterHist, clock, urls, nextID, reserved, now, generator, req, resp, started, origin,
                       updated, retired, counters>>

\* recordClickAsync: s.repo.UpdateCounterShards on the shard rand.Intn
\* picked; an error is logged and not returned
ClickCounter(i, shardID, fail) ==
    LET t == tasks[i]
    IN  /\ t.pc = "counter"
        /\ counters' = IF CtxDone(t) \/ fail THEN counters
                        ELSE UpdateCounterShards(counters, t.url_id, shardID)
        /\ tasks' = [tasks EXCEPT ![i] =
              IF CtxDone(t)
              THEN [t EXCEPT !.pc = "done", !.counterTried = TRUE, !.counterErr = "canceled"]
              ELSE IF fail
              THEN [t EXCEPT !.pc = "done", !.counterTried = TRUE, !.counterErr = "failed"]
              ELSE [t EXCEPT !.pc = "done", !.counterTried = TRUE, !.counted = TRUE]]
        /\ UNCHANGED <<cache, cacheHist, limiter, limiterHist, clock, urls, nextID, reserved, now, generator, req, resp, started, origin,
                       updated, retired, click_events>>

\* the context of the request that started goroutine i is cancelled: the
\* handler has returned or the client has gone
RequestDone(i) ==
    /\ ~tasks[i].requestDone
    /\ tasks' = [tasks EXCEPT ![i].requestDone = TRUE]
    /\ UNCHANGED <<cache, cacheHist, limiter, limiterHist, clock, urls, nextID, reserved, now, generator, req, resp, started, origin,
                   updated, retired, click_events, counters>>

(***************************************************************************)
(* service.RecordClick                                                     *)
(***************************************************************************)
\* service.RecordClick(ctx, shortCode, clickCtx): the row is read, any error
\* of the reading is answered with ErrURLNotFound, and recordClickAsync is
\* called on the caller's context for the row as it is, active or not
RecordClickStart(p, shortCode, clickCtx, fail) ==
    LET g == GetURLByShortCode(urls, shortCode, fail)
        base == [NewReq(p) EXCEPT !.op = "recordClick", !.shortCode = shortCode,
                                  !.clickCtx = clickCtx, !.lookups = 1, !.lookupAt = now]
        u == CHOOSE x \in g.rows : TRUE
    IN  /\ CanStart(p)
        /\ tasks' = IF g.err = "none" THEN Append(tasks, CallerTask(u.id, clickCtx))
                     ELSE tasks
        /\ Start(p,
              IF g.err # "none" THEN Finish(base, "ErrURLNotFound")
              ELSE [base EXCEPT !.rows = g.rows, !.id = u.id, !.task = Len(tasks) + 1,
                                !.pc = "recordClickReturn"])
        /\ UNCHANGED <<cache, cacheHist, limiter, limiterHist, clock, urls, nextID, reserved, now, generator, origin, updated, retired,
                       click_events, counters>>

\* service.RecordClick: "return s.recordClickAsync(ctx, url, clickCtx)" once
\* the call has ended
RecordClickReturn(p) ==
    LET r == req[p]
    IN  /\ r.pc = "recordClickReturn"
        /\ tasks[r.task].pc = "done"
        /\ Step(p, Finish(r, IF tasks[r.task].err = "none" THEN "ok" ELSE "RecordClickFailed"))
        /\ UNCHANGED <<cache, cacheHist, limiter, limiterHist, clock, urls, nextID, reserved, now, generator, started, origin, updated, retired,
                       tasks, click_events, counters>>

(***************************************************************************)
(* Generator.GenerateBatch                                                 *)
(***************************************************************************)
\* g.GenerateBatch(count) on the generator g the instance holds at the call:
\* count <= 0 is refused, otherwise the loop starts with no codes; g keeps
\* its codeLength whatever the service stores as its generator afterwards
BatchStart(p, count) ==
    LET base == [NewReq(p) EXCEPT !.op = "batch", !.inst = 1, !.batchCount = count,
                                  !.codeLength = generator[1]]
    IN  /\ CanStart(p)
        /\ Start(p,
              IF count <= 0 THEN Finish(base, "ErrCountNotPositive")
              ELSE [base EXCEPT !.pc = "batchDraw"])
        /\ UNCHANGED <<cache, cacheHist, limiter, limiterHist, clock, urls, nextID, reserved, now, generator, origin, updated, retired,
                       tasks, click_events, counters>>

\* one iteration of "for len(codes) < count": g.Generate() returns the code
\* of v, which is kept unless it was seen; the loop test follows
BatchDraw(p, v) ==
    LET r == req[p]
        codes == BatchAppend(r.batch, Generate(r.codeLength, v))
        r1 == [r EXCEPT !.batch = codes, !.generated = @ + 1]
    IN  /\ r.pc = "batchDraw"
        /\ r.generated < MaxDraws
        /\ InKeyspace(v, r.codeLength)
        /\ Step(p, IF Len(codes) < r.batchCount THEN r1 ELSE Finish(r1, "ok"))
        /\ UNCHANGED <<cache, cacheHist, limiter, limiterHist, clock, urls, nextID, reserved, now, generator, started, origin, updated,
                       retired, tasks, click_events, counters>>

\* g.Generate() fails: GenerateBatch returns nil and the error
BatchFail(p) ==
    LET r == req[p]
    IN  /\ r.pc = "batchDraw"
        /\ r.generated < MaxDraws
        /\ Step(p, Finish([r EXCEPT !.batch = <<>>, !.generated = @ + 1],
                           "ErrRandomGeneration"))
        /\ UNCHANGED <<cache, cacheHist, limiter, limiterHist, clock, urls, nextID, reserved, now, generator, started, origin, updated,
                       retired, tasks, click_events, counters>>

(***************************************************************************)
(* Maintenance and environment                                             *)
(***************************************************************************)
\* what CleanupExpiredURLs returns as a result name
CleanupResult(o) == IF o.err = "none" THEN "ok" ELSE "CleanupFailed"

\* this call of CleanupExpiredURLs follows a call that returned no error, with
\* the store as that call left it and the same reading of the clock
CalledAgain ==
    /\ resp.op = "cleanup"
    /\ resp.result = "ok"
    /\ resp.after = urls
    /\ resp.at = now

\* one call of Repository.CleanupExpiredURLs(ctx): one UPDATE with the
\* time.Now() of the call, which fails or not on its own
Cleanup(fail) ==
    /\ \E o \in {CleanupExpiredURLs(urls, reserved, now, fail)} :
        /\ urls' = o.store
        /\ resp' = [IdleReq EXCEPT !.op = "cleanup", !.pc = "done", !.at = now,
                                   !.rows = urls, !.reservedSeen = reserved,
                                   !.result = CleanupResult(o),
                                   !.count = o.count, !.after = o.store,
                                   !.again = CalledAgain]
    /\ UNCHANGED <<cache, cacheHist, limiter, limiterHist, clock, nextID, reserved, now, generator, req, started, origin, updated, retired,
                   tasks, click_events, counters>>

\* Repository.AddReservedCode
AddReservedCode(code) ==
    /\ reserved' = reserved \cup {code}
    /\ UNCHANGED <<cache, cacheHist, limiter, limiterHist, clock, urls, nextID, now, generator, req, resp, started, origin, updated, retired,
                   tasks, click_events, counters>>

\* time passes
Tick ==
    /\ now < MaxTime
    /\ now' = now + 1
    /\ UNCHANGED <<cache, cacheHist, limiter, limiterHist, clock, urls, nextID, reserved, generator, req, resp, started, origin, updated, retired,
                   tasks, click_events, counters>>

Next ==
    \/ \E p \in Procs, i \in Instances, u \in CreateURLInputs,
          c \in CustomCodeInputs \cup {<<>>}, e \in ExpiryInputs : CreateStart(p, i, u, c, e)
    \/ \E p \in Procs, f \in BOOLEAN : CustomIsReserved(p, f)
    \/ \E p \in Procs, f \in BOOLEAN : CustomLookup(p, f)
    \/ \E p \in Procs, v \in RandValues : GenerateStep(p, v)
    \/ \E p \in Procs : GenerateFail(p)
    \/ \E p \in Procs, f \in BOOLEAN : LookupStep(p, f)
    \/ \E p \in Procs : GrowRead(p)
    \/ \E p \in Procs : GrowStore(p)
    \/ \E p \in Procs, f \in BOOLEAN : InsertStep(p, f)
    \/ \E f \in BOOLEAN : TestConnection(f)
    \/ \E p \in Procs, c \in LookupCodeInputs, x \in ClickCtxInputs, f \in BOOLEAN :
           RedirectLookup(p, c, x, f)
    \/ \E p \in Procs : RedirectCheck(p)
    \/ \E p \in Procs : RedirectReturn(p)
    \/ \E i \in 1..Len(tasks), f \in BOOLEAN : ClickRecord(i, f)
    \/ \E i \in 1..Len(tasks), k \in ShardInputs, f \in BOOLEAN : ClickCounter(i, k, f)
    \/ \E i \in 1..Len(tasks) : RequestDone(i)
    \/ \E p \in Procs : RedirectWhy(p)
    \/ \E p \in Procs, c \in LookupCodeInputs, x \in ClickCtxInputs, f \in BOOLEAN :
           RecordClickStart(p, c, x, f)
    \/ \E p \in Procs : RecordClickReturn(p)
    \/ \E p \in Procs, c \in LookupCodeInputs, t \in UpdateTargetInputs,
          a \in IsActiveInputs, e \in ExpiryInputs, f \in BOOLEAN : UpdateStart(p, c, t, a, e, f)
    \/ \E p \in Procs, f \in BOOLEAN : UpdateWrite(p, f)
    \/ \E p \in Procs, c \in LookupCodeInputs, f \in BOOLEAN : Deactivate(p, c, f)
    \/ \E f \in BOOLEAN : Cleanup(f)
    \/ \E c \in ReservedCodeInputs : AddReservedCode(c)
    \/ Tick
    \/ \E p \in Procs, n \in (0 - 1)..MaxBatch : BatchStart(p, n)
    \/ \E p \in Procs, v \in 0..MaxBatchRand : BatchDraw(p, v)
    \/ \E p \in Procs : BatchFail(p)

Spec == Init /\ [][Next]_vars

(***************************************************************************)
(* Creation under concurrency: Next restricted to the creation requests,   *)
(* with a valid target, custom codes equal to the codes the generator      *)
(* returns for the value 0 at lengths 7, 8, 9, and no expiry, and to the   *)
(* database test, which draws ids from the same sequence                   *)
(***************************************************************************)
CreateCustomInputs == {Code_a7, Code_a8, Code_a9}

NextCreate ==
    \/ \E p \in Procs, i \in Instances, c \in CreateCustomInputs \cup {<<>>} :
          CreateStart(p, i, URL_A, c, {})
    \/ \E p \in Procs : CustomIsReserved(p, FALSE)
    \/ \E p \in Procs : CustomLookup(p, FALSE)
    \/ \E p \in Procs, v \in RandValues : GenerateStep(p, v)
    \/ \E p \in Procs : GenerateFail(p)
    \/ \E p \in Procs : LookupStep(p, FALSE)
    \/ \E p \in Procs : GrowRead(p)
    \/ \E p \in Procs : GrowStore(p)
    \/ \E p \in Procs, f \in BOOLEAN : InsertStep(p, f)
    \/ \E f \in BOOLEAN : TestConnection(f)

SpecCreate == Init /\ [][NextCreate]_vars

(***************************************************************************)
(* Life of a link: Next restricted to creations with a custom code and to  *)
(* redirects, updates, deactivations, cleanup and the clock                *)
(***************************************************************************)
LifeCodeInputs == {Code_ab, Code_a7}

\* the update requests: one field each
UpdateInputs ==
    { <<URL_B, "nil", {}>>, <<(<<>>), "true", {}>>, <<(<<>>), "false", {}>>,
      <<(<<>>), "nil", {MaxTime}>> }

NextLife ==
    \/ \E p \in Procs, c \in LifeCodeInputs, e \in ExpiryInputs :
          CreateStart(p, 1, URL_A, c, e)
    \/ \E p \in Procs : CustomIsReserved(p, FALSE)
    \/ \E p \in Procs : CustomLookup(p, FALSE)
    \/ \E p \in Procs : InsertStep(p, FALSE)
    \/ \E p \in Procs, c \in LifeCodeInputs : RedirectLookup(p, c, "nil", FALSE)
    \/ \E p \in Procs : RedirectCheck(p)
    \/ \E p \in Procs : RedirectWhy(p)
    \/ \E p \in Procs, c \in LifeCodeInputs, u \in UpdateInputs :
          UpdateStart(p, c, u[1], u[2], u[3], FALSE)
    \/ \E p \in Procs, f \in BOOLEAN : UpdateWrite(p, f)
    \/ \E p \in Procs, c \in LifeCodeInputs : Deactivate(p, c, FALSE)
    \/ Cleanup(FALSE)
    \/ Tick

SpecLife == Init /\ [][NextLife]_vars

(***************************************************************************)
(* Concurrent updates of one link: one link is created under the code "ab" *)
(* and the requests UpdateURL{target_url} and UpdateURL{expires_at} on it  *)
(* are interleaved.                                                        *)
(***************************************************************************)
\* the two update requests with disjoint fields
UpdateDisjointInputs == { <<URL_B, "nil", {}>>, <<(<<>>), "nil", {MaxTime}>> }

NextUpdate ==
    \/ \E p \in Procs : CreateStart(p, 1, URL_A, Code_ab, {})
    \/ \E p \in Procs : CustomIsReserved(p, FALSE)
    \/ \E p \in Procs : CustomLookup(p, FALSE)
    \/ \E p \in Procs : InsertStep(p, FALSE)
    \/ \E p \in Procs, u \in UpdateDisjointInputs :
          UpdateStart(p, Code_ab, u[1], u[2], u[3], FALSE)
    \/ \E p \in Procs : UpdateWrite(p, FALSE)

SpecUpdate == Init /\ [][NextUpdate]_vars

(***************************************************************************)
(* Creation with store lookups that may fail: the lookups of               *)
(* ValidateCustomCode and of generateUniqueCode answer found, not found,   *)
(* or fail (timeout, cancelled context, connection error).                 *)
(***************************************************************************)
NextLookup ==
    \/ \E p \in Procs, c \in {Code_a7, <<>>} : CreateStart(p, 1, URL_A, c, {})
    \/ \E p \in Procs : CustomIsReserved(p, FALSE)
    \/ \E p \in Procs, f \in BOOLEAN : CustomLookup(p, f)
    \/ \E p \in Procs, v \in RandValues : GenerateStep(p, v)
    \/ \E p \in Procs, f \in BOOLEAN : LookupStep(p, f)
    \/ \E p \in Procs : GrowRead(p)
    \/ \E p \in Procs : GrowStore(p)
    \/ \E p \in Procs : InsertStep(p, FALSE)

SpecLookup == Init /\ [][NextLookup]_vars

(***************************************************************************)
(* Click counts of two links: the links "ab" and "aaaaaaa" are created and *)
(* redirects to both and calls of service.RecordClick, with a click        *)
(* context or with none, start click recordings whose insert and counter   *)
(* update may fail.                                                        *)
(***************************************************************************)
NextCount ==
    \/ \E p \in Procs, c \in LifeCodeInputs : CreateStart(p, 1, URL_A, c, {})
    \/ \E p \in Procs : CustomIsReserved(p, FALSE)
    \/ \E p \in Procs : CustomLookup(p, FALSE)
    \/ \E p \in Procs : InsertStep(p, FALSE)
    \/ \E p \in Procs, c \in LifeCodeInputs : RedirectLookup(p, c, "plain", FALSE)
    \/ \E p \in Procs : RedirectCheck(p)
    \/ \E p \in Procs : RedirectReturn(p)
    \/ \E i \in 1..Len(tasks), f \in BOOLEAN : ClickRecord(i, f)
    \/ \E i \in 1..Len(tasks), k \in ShardInputs, f \in BOOLEAN : ClickCounter(i, k, f)
    \/ \E p \in Procs, c \in LifeCodeInputs, x \in {"nil", "plain"} :
           RecordClickStart(p, c, x, FALSE)
    \/ \E p \in Procs : RecordClickReturn(p)

SpecCount == Init /\ [][NextCount]_vars

(***************************************************************************)
(* Shutdown: a link is created, redirects start click recordings, and      *)
(* gracefulShutdown calls App.Shutdown with a context that expires after   *)
(* ten seconds.                                                            *)
(***************************************************************************)
\* App.Shutdown has been called: the listeners are closed
ShuttingDown == \E q \in Procs : req[q].op = "shutdown"

\* a.db.Close() has returned
DBClosed == \E q \in Procs : req[q].op = "shutdown" /\ req[q].pc = "closed"

\* a click recording started by a redirect has not finished
PendingClicks == \E i \in 1..Len(tasks) : tasks[i].pc # "done"

\* App.Shutdown: "if err := ...; err != nil { log.Printf(...) }", then the
\* next statement
ShutdownNext(r, step, err, next) ==
    [r EXCEPT !.steps = Append(@, [step |-> step, err |-> err]), !.pc = next]

\* gracefulShutdown: app.Shutdown(ctx) is entered; HTTPServer.Shutdown closes
\* the listeners, no new request is accepted
ShutdownStart(p) ==
    /\ CanStart(p)
    /\ ~ShuttingDown
    /\ Start(p, [NewReq(p) EXCEPT !.op = "shutdown", !.pc = "httpShutdown"])
    /\ UNCHANGED <<cache, cacheHist, limiter, limiterHist, clock, urls, nextID, reserved, now, generator, origin, updated, retired,
                   tasks, click_events, counters>>

\* App.Shutdown: a.HTTPServer.Shutdown(ctx) returns, nil once no handler is
\* running, the context's error when the ten seconds are over
ShutdownHTTP(p, expire) ==
    LET r == req[p]
        handlersIdle == \A q \in Procs \ {p} : req[q].pc = "idle"
    IN  /\ r.pc = "httpShutdown"
        /\ expire \/ handlersIdle
        /\ req' = [req EXCEPT ![p] =
                      ShutdownNext([r EXCEPT !.expired = expire], "http", expire,
                                   "serviceShutdown")]
        /\ UNCHANGED <<cache, cacheHist, limiter, limiterHist, clock, urls, nextID, reserved, now, generator, resp, started, origin, updated,
                       retired, tasks, click_events, counters>>

\* App.Shutdown: a.shortenerSvc.Shutdown(ctx) returns, nil once no click
\* recording is pending, the context's error when the ten seconds are over
ShutdownService(p, expire) ==
    LET r == req[p]
    IN  /\ r.pc = "serviceShutdown"
        /\ r.expired => expire
        /\ expire \/ ~PendingClicks
        /\ req' = [req EXCEPT ![p] =
                      ShutdownNext([r EXCEPT !.expired = expire], "service", expire,
                                   "dbClose")]
        /\ UNCHANGED <<cache, cacheHist, limiter, limiterHist, clock, urls, nextID, reserved, now, generator, resp, started, origin, updated,
                       retired, tasks, click_events, counters>>

\* App.Shutdown: a.db.Close() returns, with or without an error
ShutdownDB(p, err) ==
    LET r == req[p]
    IN  /\ r.pc = "dbClose"
        /\ req' = [req EXCEPT ![p] =
                      ShutdownNext([r EXCEPT !.pendingAtClose = PendingClicks], "db", err,
                                   "closed")]
        /\ UNCHANGED <<cache, cacheHist, limiter, limiterHist, clock, urls, nextID, reserved, now, generator, resp, started, origin, updated,
                       retired, tasks, click_events, counters>>

NextShutdown ==
    \/ \E p \in Procs : ~ShuttingDown /\ CreateStart(p, 1, URL_A, Code_ab, {})
    \/ \E p \in Procs, f \in BOOLEAN : (DBClosed => f) /\ CustomIsReserved(p, f)
    \/ \E p \in Procs, f \in BOOLEAN : (DBClosed => f) /\ CustomLookup(p, f)
    \/ \E p \in Procs, f \in BOOLEAN : (DBClosed => f) /\ InsertStep(p, f)
    \/ \E p \in Procs, f \in BOOLEAN :
           ~ShuttingDown /\ RedirectLookup(p, Code_ab, "plain", f)
    \/ \E p \in Procs : RedirectCheck(p)
    \/ \E p \in Procs : RedirectReturn(p)
    \/ \E i \in 1..Len(tasks), f \in BOOLEAN : (DBClosed => f) /\ ClickRecord(i, f)
    \/ \E i \in 1..Len(tasks), k \in ShardInputs, f \in BOOLEAN :
           (DBClosed => f) /\ ClickCounter(i, k, f)
    \/ \E p \in Procs : ShutdownStart(p)
    \/ \E p \in Procs, x \in BOOLEAN : ShutdownHTTP(p, x)
    \/ \E p \in Procs, x \in BOOLEAN : ShutdownService(p, x)
    \/ \E p \in Procs, e \in BOOLEAN : ShutdownDB(p, e)

SpecShutdown == Init /\ [][NextShutdown]_vars

(***************************************************************************)
(* Clean-up of expired links: links are created with and without expiry,   *)
(* deactivated, the clock advances, codes are reserved, and                *)
(* Repository.CleanupExpiredURLs is called at any moment.                  *)
(***************************************************************************)
NextCleanup ==
    \/ \E p \in Procs, c \in LifeCodeInputs, e \in ExpiryInputs :
          CreateStart(p, 1, URL_A, c, e)
    \/ \E p \in Procs : CustomIsReserved(p, FALSE)
    \/ \E p \in Procs : CustomLookup(p, FALSE)
    \/ \E p \in Procs : InsertStep(p, FALSE)
    \/ \E p \in Procs, c \in LifeCodeInputs : Deactivate(p, c, FALSE)
    \/ \E f \in BOOLEAN : Cleanup(f)
    \/ \E c \in ReservedCodeInputs : AddReservedCode(c)
    \/ Tick

SpecCleanup == Init /\ [][NextCleanup]_vars

(***************************************************************************)
(* Redirects with click recording: one link "ab", redirects with or without *)
(* a click context, the goroutines they start, calls of service.RecordClick, *)
(* deactivation of the link and cancellation of the requests' contexts.    *)
(***************************************************************************)
NextClick ==
    \/ \E p \in Procs : CreateStart(p, 1, URL_A, Code_ab, {})
    \/ \E p \in Procs : CustomIsReserved(p, FALSE)
    \/ \E p \in Procs : CustomLookup(p, FALSE)
    \/ \E p \in Procs : InsertStep(p, FALSE)
    \/ \E p \in Procs, x \in ClickCtxInputs : RedirectLookup(p, Code_ab, x, FALSE)
    \/ \E p \in Procs : RedirectCheck(p)
    \/ \E p \in Procs : RedirectReturn(p)
    \/ \E p \in Procs : RedirectWhy(p)
    \/ \E i \in 1..Len(tasks), f \in BOOLEAN : ClickRecord(i, f)
    \/ \E i \in 1..Len(tasks), k \in ShardInputs, f \in BOOLEAN : ClickCounter(i, k, f)
    \/ \E i \in 1..Len(tasks) : RequestDone(i)
    \/ \E p \in Procs : Deactivate(p, Code_ab, FALSE)
    \/ \E p \in Procs : RecordClickStart(p, Code_ab, "plain", FALSE)
    \/ \E p \in Procs : RecordClickReturn(p)

SpecClick == Init /\ [][NextClick]_vars

(***************************************************************************)
(* Codes and validation: a service constructed with DefaultCodeLength = 4  *)
(* (the shortest NewGeneratorWithLength accepts), custom codes in several  *)
(* spellings, reserved codes added at run time, and updates of the target. *)
(***************************************************************************)
\* "AB", "Root" and "a@"
Code_AB == <<"A","B">>
Code_Root == <<"R","o","o","t">>
Code_aAt == <<"a","@">>
\* "root", a text Generate can return at length 4
Code_root == <<"r","o","o","t">>

CodesCustomInputs == {Code_ab, Code_AB, Code_Root, Code_aAt}
\* the value rand.Int returns
CodesRandValues == {FromBase62(Code_root)}
CodesUpdateTargets == {URL_B, URL_NoScheme}

\* NewService(repo, &Config{DefaultCodeLength: 4, ...}) on an empty database
InitCodes ==
    /\ urls = {}
    /\ nextID = 1
    /\ reserved = {}
    /\ now = 0
    /\ generator = [i \in Instances |-> NewGeneratorWithLength(minCodeLength).codeLength]
    /\ req = [p \in Procs |-> IdleReq]
    /\ resp = IdleReq
    /\ started = 0
    /\ origin = {}
    /\ updated = {}
    /\ retired = {}
    /\ tasks = <<>>
    /\ click_events = {}
    /\ counters = {}
    /\ cache = NewLRU(1, 1)
    /\ cacheHist = NoCacheCall
    /\ limiter = NewRateLimiter(1, 1)
    /\ limiterHist = NoLimiterCall
    /\ clock = 0

NextCodes ==
    \/ \E p \in Procs, c \in CodesCustomInputs \cup {<<>>} :
           CreateStart(p, 1, URL_A, c, {})
    \/ \E p \in Procs : CreateStart(p, 1, URL_NoScheme, <<>>, {})
    \/ \E p \in Procs : CustomIsReserved(p, FALSE)
    \/ \E p \in Procs : CustomLookup(p, FALSE)
    \/ \E p \in Procs, v \in CodesRandValues : GenerateStep(p, v)
    \/ \E p \in Procs : LookupStep(p, FALSE)
    \/ \E p \in Procs : GrowRead(p)
    \/ \E p \in Procs : GrowStore(p)
    \/ \E p \in Procs : InsertStep(p, FALSE)
    \/ \E p \in Procs, t \in CodesUpdateTargets :
           UpdateStart(p, Code_ab, t, "nil", {}, FALSE)
    \/ \E p \in Procs : UpdateWrite(p, FALSE)
    \/ \E p \in Procs : Deactivate(p, Code_ab, FALSE)
    \/ AddReservedCode(Code_ab)

SpecCodes == InitCodes /\ [][NextCodes]_vars

(***************************************************************************)
(* Generator.GenerateBatch on the generator of instance 1                  *)
(***************************************************************************)
BatchCountInputs == (0 - 1)..MaxBatch
BatchRandValues == 0..MaxBatchRand

\* the calls of GenerateBatch with a random source that returns values
NextBatch ==
    \/ \E p \in Procs, n \in BatchCountInputs : BatchStart(p, n)
    \/ \E p \in Procs, v \in BatchRandValues : BatchDraw(p, v)

SpecBatch == Init /\ [][NextBatch]_vars

(***************************************************************************)
(* The pure functions of the generator and of the custom-code validator,  *)
(* called on their own: each call leaves its input and its result in resp. *)
(***************************************************************************)
\* longest text handed to IsValidCode
MaxCodeLen == 13
\* longest text handed to models.ValidateCustomCode
MaxCustomLen == 51

\* characters placed in the texts: a lower-case letter, an upper-case letter,
\* a digit, the two extra characters of custom codes, and three others
ProbeChars == {"a", "Z", "7", "-", "_", " ", "@", "."}

Repeat(c, n) == [i \in 1..n |-> c]

\* the texts of n times c with one position replaced
OneReplaced(c, n, positions) ==
    { [Repeat(c, n) EXCEPT ![k] = d] : k \in positions \cap (1..n), d \in ProbeChars }

\* inputs of IsValidCode: every length 0..MaxCodeLen, every position
IsValidCodeInputs ==
    {<<>>} \cup UNION { OneReplaced("a", n, 1..n) : n \in 1..MaxCodeLen }

ToUpperChar(c) ==
    IF \E i \in 1..26 : LowerChars[i] = c
    THEN UpperChars[CHOOSE i \in 1..26 : LowerChars[i] = c]
    ELSE c

\* a reserved word in every spelling that upper-cases one letter or all of
\* them, and the texts one character longer and one character shorter
ReservedSpellings(w) ==
    { [i \in 1..Len(w) |-> IF i = k THEN ToUpperChar(w[i]) ELSE w[i]] : k \in 0..Len(w) }
        \cup { [i \in 1..Len(w) |-> ToUpperChar(w[i])], w \o <<"s">>, SubSeq(w, 1, Len(w) - 1) }

\* inputs of models.ValidateCustomCode: every length 0..MaxCustomLen with the
\* first or the last character replaced, and the spellings of reserved words
ValidateCustomCodeInputs ==
    {<<>>} \cup UNION { OneReplaced("b", n, {1, n}) : n \in 1..MaxCustomLen }
           \cup UNION { ReservedSpellings(w) : w \in Range(reservedPatterns) }

\* values of the random source: the texts of 1 to 5 equal digits, which are
\* the least and the greatest value of 1 to 5 digits and two between (62^6
\* is beyond the integers of the model checker)
GenerateValueInputs ==
    {0} \cup { FromBase62(Repeat(c, n) ) : c \in {"b", "k", "Z", "9"}, n \in 1..5 }
        \cup { FromBase62(<<"b">> \o Repeat("a", n)) : n \in 1..4 }

\* targets put together from a scheme prefix, a host, a port and a path, and
\* the two targets "example.com" and "HTTP://EXAMPLE.COM:80/"
URLSchemeInputs == {<<>>, <<"h","t","t","p",":","/","/">>, <<"h","t","t","p","s",":","/","/">>, <<"H","T","T","P",":","/","/">>}
URLHostInputs == {<<"a",".","c","o">>, <<"A",".","c","o">>, <<"[",":",":","1","]">>}
URLPortInputs == {<<>>, <<":","8","0">>, <<":","4","4","3">>, <<":","8","0","8","0">>}
URLPathInputs == {<<>>, <<"/">>, <<"/","p">>}
URL_example == <<"e","x","a","m","p","l","e",".","c","o","m">>
URL_EXAMPLE == <<"H","T","T","P",":","/","/","E","X","A","M","P","L","E",".","C","O","M",":","8","0","/">>
NormalizeURLInputs ==
    { sc \o h \o po \o pa : sc \in URLSchemeInputs, h \in URLHostInputs,
                               po \in URLPortInputs, pa \in URLPathInputs }
        \cup {URL_example, URL_EXAMPLE}

\* each behaviour makes one call (started = 0), which is counted in started
PureCall(op) == [IdleReq EXCEPT !.op = op, !.pc = "done"]

\* models.ValidateCustomCode(code)
ValidateCustomCodeCall(code) ==
    /\ started = 0
    /\ resp' = [PureCall("ValidateCustomCode") EXCEPT
                    !.shortCode = code, !.result = ValidateCustomCode(code)]
    /\ started' = started + 1
    /\ UNCHANGED <<cache, cacheHist, limiter, limiterHist, clock, urls, nextID, reserved, now, generator, req, origin, updated,
                   retired,
                   tasks, click_events, counters>>

\* NewGeneratorWithLength(length) followed by Generate, rand.Int returning v
GenerateCall(length, v) ==
    /\ started = 0
    /\ NewGeneratorWithLength(length).ok
    /\ InKeyspace(v, length)
    /\ resp' = [PureCall("Generate") EXCEPT
                    !.newLength = NewGeneratorWithLength(length).codeLength,
                    !.randomValue = v,
                    !.code = Generate(NewGeneratorWithLength(length).codeLength, v)]
    /\ started' = started + 1
    /\ UNCHANGED <<cache, cacheHist, limiter, limiterHist, clock, urls, nextID, reserved, now, generator, req, origin, updated,
                   retired,
                   tasks, click_events, counters>>

\* IsValidCode(code)
IsValidCodeCall(code) ==
    /\ started = 0
    /\ resp' = [PureCall("IsValidCode") EXCEPT
                    !.shortCode = code,
                    !.result = IF IsValidCode(code) THEN "true" ELSE "false"]
    /\ started' = started + 1
    /\ UNCHANGED <<cache, cacheHist, limiter, limiterHist, clock, urls, nextID, reserved, now, generator, req, origin, updated,
                   retired,
                   tasks, click_events, counters>>

\* what NormalizeURL returns as a result name and a text
NormalizeResult(n) == IF n.err THEN "NormalizeFailed" ELSE "ok"

\* models.ValidateURL(x), models.NormalizeURL(x), and models.NormalizeURL of
\* the text the first call returned
NormalizeURLCall(x) ==
    /\ started = 0
    /\ resp' = Only({ [PureCall("NormalizeURL") EXCEPT
                          !.url = x, !.valid = ValidateURL(x),
                          !.result = NormalizeResult(n), !.out = n.url,
                          !.result2 = IF n.err THEN "" ELSE NormalizeResult(NormalizeURL(n.url)),
                          !.out2 = IF n.err THEN <<>> ELSE NormalizeURL(n.url).url]
                       : n \in {NormalizeURL(x)} })
    /\ started' = started + 1
    /\ UNCHANGED <<cache, cacheHist, limiter, limiterHist, clock, urls, nextID, reserved, now, generator, req, origin, updated,
                   retired, tasks, click_events, counters>>

NextPure ==
    \/ \E x \in NormalizeURLInputs : NormalizeURLCall(x)
    \/ \E code \in ValidateCustomCodeInputs : ValidateCustomCodeCall(code)
    \/ \E length \in (minCodeLength - 1)..(maxCodeLength + 1), v \in GenerateValueInputs :
           GenerateCall(length, v)
    \/ \E code \in IsValidCodeInputs : IsValidCodeCall(code)

SpecPure == Init /\ [][NextPure]_vars

(***************************************************************************)
(* Properties of creation, checked under SpecCreate                        *)
(***************************************************************************)
\* the requests in flight and the last response
InFlight == { req[p] : p \in Procs } \ {IdleReq}
RandomCreate(r) == r.op = "create" /\ r.shortCode = <<>>
CustomCreate(r) == r.op = "create" /\ r.shortCode # <<>>

\* C1: under any interleaving of CreateShortURL requests, no two successful
\* requests own the same short code and every code belongs to at most one
\* stored link
C1_CodesAreUnique ==
    /\ \A a, b \in urls : a.short_code = b.short_code => a = b
    /\ \A x, y \in origin : x.code = y.code => x = y
    /\ \A x \in origin : \E u \in urls : u.id = x.id /\ u.short_code = x.code
    /\ (resp.op = "create" /\ resp.result = "ok")
          => [id |-> resp.id, code |-> resp.code, target |-> resp.out] \in origin

\* C1, its case: a request found its code free, another request wrote the
\* code first, and the store refused the second write
C1_Witness ==
    /\ resp.op = "create"
    /\ resp.storeErr = "unique_violation"
    /\ \E u \in urls : u.short_code = resp.code

\* C2: a creation with a custom code whose write the unique index refuses
\* (a concurrent request with the same code wrote first) fails with
\* ErrCustomCodeTaken, not with a generic creation failure
C2_LoserGetsCustomCodeTaken ==
    (CustomCreate(resp) /\ resp.storeErr = "unique_violation")
        => resp.result = "ErrCustomCodeTaken"

\* C3: on the random path a write refused by the unique index does not fail
\* the request: it counts as a collision and the request tries a fresh code
C3_RefusedWriteIsRetried ==
    RandomCreate(resp) => ~(resp.result = "CreateFailed" /\ resp.storeErr = "unique_violation")

\* C4: generateUniqueCode never makes more than MaxRetries generate-and-lookup
\* attempts, reports ErrTooManyRetries only after exactly MaxRetries attempts
\* that all collided, and reports it whenever MaxRetries attempts collided
C4_ExactlyMaxRetries ==
    /\ \A r \in InFlight \cup {resp} :
          /\ r.generated <= MaxRetries
          /\ r.lookups <= r.generated \/ ~RandomCreate(r)
          /\ r.collisionCount <= r.lookups
    /\ \A r \in InFlight : RandomCreate(r) => r.attempt < MaxRetries
    /\ resp.result = "ErrTooManyRetries"
          => /\ RandomCreate(resp)
             /\ resp.attempt = MaxRetries
             /\ resp.generated = MaxRetries
             /\ resp.lookups = MaxRetries
             /\ resp.collisionCount = MaxRetries
    /\ (RandomCreate(resp) /\ resp.collisionCount = MaxRetries)
          => resp.result = "ErrTooManyRetries"

\* C4, its case: a request whose MaxRetries candidates were all in the store
C4_Witness ==
    /\ resp.result = "ErrTooManyRetries"
    /\ resp.collisionCount = MaxRetries

\* C5: a creation request that ran without concurrent requests grows the
\* code length by 1 in total when its collisions reach CollisionThreshold
\* (the length being below 12), and not at all when they stay below it
C5_GrowsOnceInTotal ==
    (RandomCreate(resp) /\ resp.alone)
        => /\ (resp.collisionCount >= CollisionThreshold /\ resp.len0 < maxCodeLength)
                => resp.grows = 1
           /\ resp.collisionCount < CollisionThreshold => resp.grows = 0

(***************************************************************************)
(* Properties of the redirect, checked under SpecLife                      *)
(***************************************************************************)
\* a finished GetURLForRedirect and the row its lookup read
Redirected(r) == r.op = "redirect"
RedirectErrors == {"ErrURLNotFound", "ErrURLInactive", "ErrURLExpired"}

\* C6, as the claim states it: a row read with is_active = false is answered
\* ErrURLInactive whether or not it has expired, and ErrURLExpired is
\* answered only for a row that is active and expired
C6_InactiveWins ==
    Redirected(resp) =>
        \A u \in resp.rows :
            /\ ~u.is_active => resp.result = "ErrURLInactive"
            /\ resp.result = "ErrURLExpired" => (u.is_active /\ IsExpired(u, resp.whyAt))

\* what GetURLForRedirect answers instead: a row that is not accessible is
\* answered ErrURLExpired exactly when its expiry has passed, active or not,
\* and ErrURLInactive exactly when it is inactive and its expiry is unset or
\* has not passed
C6_ExpiredWins ==
    Redirected(resp) =>
        \A u \in resp.rows :
            /\ resp.result = "ErrURLExpired" <=> (~IsAccessible(u, resp.checkAt) /\ IsExpired(u, resp.whyAt))
            /\ resp.result = "ErrURLInactive" <=> (~IsAccessible(u, resp.checkAt) /\ ~IsExpired(u, resp.whyAt))
            /\ resp.result = "ErrURLInactive" => ~u.is_active

\* the case of C6 the code answers otherwise: a row both inactive and
\* expired is answered ErrURLExpired
C6_Witness ==
    /\ Redirected(resp)
    /\ resp.result = "ErrURLExpired"
    /\ \E u \in resp.rows : ~u.is_active /\ IsExpired(u, resp.whyAt)

\* C7, as the claim states it: a code that fails IsValidCode is rejected
\* with no store lookup
C7_InvalidCodeNoLookup ==
    \A r \in InFlight \cup {resp} :
        (Redirected(r) /\ ~IsValidCode(r.shortCode)) => (r.lookups = 0 /\ r.result # "ok")

\* C7, amended: GetURLForRedirect makes exactly one store lookup for every
\* code, whether or not IsValidCode accepts it, and answers ErrURLNotFound
\* exactly when the lookup returned no row
C7_AlwaysOneLookup ==
    /\ \A r \in InFlight \cup {resp} : Redirected(r) => r.lookups = 1
    /\ Redirected(resp) =>
          /\ resp.result = "ErrURLNotFound" <=> resp.rows = {}
          /\ \A u \in resp.rows : u.short_code = resp.shortCode

\* C7, its case: a stored code that IsValidCode rejects is looked up and
\* resolves
C7_Witness ==
    /\ Redirected(resp)
    /\ ~IsValidCode(resp.shortCode)
    /\ resp.lookups = 1
    /\ resp.result = "ok"

\* C8: a redirect of a code whose row no UpdateURL has written returns the
\* target its creation stored, and does return it when the row read is
\* active and not expired, whatever happened to other codes; a creation
\* stores the normalized target of its request
C8_RoundTrip ==
    /\ \A u \in urls : u.id \notin updated =>
          [id |-> u.id, code |-> u.short_code, target |-> u.target_url] \in origin
    /\ (resp.op = "create" /\ resp.result = "ok") =>
          /\ resp.out = NormalizeURLOf[resp.url].url
          /\ [id |-> resp.id, code |-> resp.code, target |-> resp.out] \in origin
    /\ Redirected(resp) =>
          \A u \in resp.rows : u.id \notin updated =>
              /\ [id |-> u.id, code |-> resp.shortCode, target |-> u.target_url] \in origin
              /\ resp.result = "ok" => (resp.out = u.target_url /\ resp.id = u.id)
              /\ (u.is_active /\ ~IsExpired(u, resp.checkAt)) => resp.result = "ok"

\* C8, its case: a redirect returns the target of a link never updated
\* while another code's link has been updated or deactivated
C8_Witness ==
    /\ Redirected(resp)
    /\ resp.result = "ok"
    /\ resp.id \notin updated
    /\ \E u \in urls : u.short_code # resp.shortCode /\ (u.id \in updated \/ ~u.is_active)

\* C9: a redirect returns a target only for a row that has the code asked
\* for, is active and has not expired when it is checked (hence when it was
\* looked up); every other redirect answers ErrURLNotFound, ErrURLInactive
\* or ErrURLExpired and returns no target
C9_TargetOnlyIfAccessible ==
    Redirected(resp) =>
        /\ resp.result \in RedirectErrors \cup {"ok"}
        /\ resp.result = "ok" =>
              \E u \in resp.rows :
                  /\ u.short_code = resp.shortCode
                  /\ u.is_active
                  /\ ~IsExpired(u, resp.checkAt)
                  /\ ~IsExpired(u, resp.lookupAt)
                  /\ resp.out = u.target_url
        /\ resp.result # "ok" => (resp.out = <<>> /\ resp.id = 0)

\* C9, its case: a redirect of a link that carries an expiry, before and
\* after the expiry
C9_Witness ==
    /\ Redirected(resp)
    /\ resp.result = "ok"
    /\ \E u \in resp.rows : u.expires_at # {}

\* C10: once DeactivateURL(c) has succeeded and no UpdateURL carrying
\* is_active = true has been applied to c since, a redirect of c does not
\* return the target
C10_DeactivatedStaysInactive ==
    (Redirected(resp) /\ resp.sawRetired) => resp.result # "ok"

\* the random creations for which generateUniqueCode has returned a code
HasCandidate(r) ==
    /\ RandomCreate(r)
    /\ r.pc = "insert" \/ (r.pc = "done" /\ r.result \in {"ok", "CreateFailed"})

\* C26: the code generateUniqueCode returns is the last candidate it
\* generated, the lookup of that candidate answered not found, the lookups
\* of all candidates before it found a link, and it generated and looked up
\* exactly that many candidates, at most MaxRetries; ErrTooManyRetries is
\* returned only when the lookups of all MaxRetries candidates found a link
C26_FirstFreeCandidate ==
    \A r \in InFlight \cup {resp} :
        /\ HasCandidate(r) =>
              /\ Len(r.cands) \in 1..MaxRetries
              /\ r.cands[Len(r.cands)].answer = "notfound"
              /\ r.cands[Len(r.cands)].code = r.code
              /\ \A k \in 1..(Len(r.cands) - 1) : r.cands[k].answer = "none"
              /\ r.generated = Len(r.cands)
              /\ r.lookups = Len(r.cands)
        /\ (RandomCreate(r) /\ r.result = "ErrTooManyRetries") =>
              /\ Len(r.cands) = MaxRetries
              /\ \A k \in 1..Len(r.cands) : r.cands[k].answer = "none"

\* C26, its case: a creation succeeded with its third candidate or a later
\* one after the earlier ones had collided
C26_Witness ==
    /\ RandomCreate(resp)
    /\ resp.result = "ok"
    /\ Len(resp.cands) >= 3
    /\ resp.collisionCount = Len(resp.cands) - 1

\* the code length of every instance's generator is one NewGeneratorWithLength
\* accepts and is at least the length the service starts with
LengthInRange ==
    \A i \in Instances : generator[i] \in DefaultCodeLength..maxCodeLength

\* no step installs a generator with a shorter code length
LengthNotDecreased ==
    \A i \in Instances : generator'[i] >= generator[i]

\* C27: the code length of the service's generator stays within
\* [DefaultCodeLength, maxCodeLength] and never decreases, whatever the
\* interleaving of the creations that grow it
C27_LengthNeverDecreases == []LengthInRange /\ [][LengthNotDecreased]_vars

(***************************************************************************)
(* Properties of the stored rows, checked under SpecLife                   *)
(***************************************************************************)
\* C13: the short code of a stored link never changes and no link is ever
\* removed: every (id, code) pair that CreateShortURL once stored is the
\* (id, code) of exactly one stored row, and every stored row carries the
\* (id, code) it was created with, whatever UpdateURL, DeactivateURL and
\* CleanupExpiredURLs have changed in its target, is_active and expires_at
C13_CodeKeptAndNothingRemoved ==
    /\ \A o \in origin :
          Cardinality({ u \in urls : u.id = o.id /\ u.short_code = o.code }) = 1
    /\ \A u \in urls : \E o \in origin : o.id = u.id /\ o.code = u.short_code
    /\ Cardinality(urls) = Cardinality(origin)

\* C13, its case: a link whose target was replaced and that was deactivated
\* afterwards is still stored under its id and code
C13_Witness ==
    \E u \in urls, o \in origin :
        /\ o.id = u.id
        /\ o.code = u.short_code
        /\ u.target_url # o.target
        /\ ~u.is_active

\* the code of the last deactivation was not in the store when it ran
DeactivatedMissing == resp.op = "deactivate" /\ resp.storeErr = "notfound"

\* the deactivation of a code that is not in the store is answered with
\* ErrURLNotFound and 404
MissingIsNotFound ==
    DeactivatedMissing => (resp.result = "ErrURLNotFound" /\ resp.status = 404)

\* a step that deactivates a code that is not in the store leaves the store
\* as it is
MissingLeavesStore ==
    (started' = started + 1 /\ resp'.op = "deactivate" /\ resp'.storeErr = "notfound")
        => urls' = urls

\* C32: deactivating a code that is not in the store returns ErrURLNotFound,
\* the DELETE handler answers 404, and the store is unchanged
C32_DeactivateMissingIsNotFound == []MissingIsNotFound /\ [][MissingLeavesStore]_vars

\* the write of the update request of p has been acknowledged in this step
UpdateAcknowledged(p) ==
    /\ req[p].pc = "updateWrite"
    /\ req'[p].pc # "updateWrite"
    /\ resp'.result = "ok"

\* a step in which an update is acknowledged leaves, in the stored row of its
\* link, every field that its request does not carry as it was
AbsentFieldsUntouched ==
    \A p \in Procs :
        UpdateAcknowledged(p) =>
            \A u \in urls, v \in urls' :
                (u.short_code = req[p].shortCode /\ v.id = u.id) =>
                    /\ req[p].url = <<>> => v.target_url = u.target_url
                    /\ req[p].isActive = "nil" => v.is_active = u.is_active
                    /\ req[p].expiresAt = {} => v.expires_at = u.expires_at

\* C29: UpdateURL changes only the fields its request carries and leaves the
\* others of the stored row untouched, in every interleaving of the update
\* requests on a code, so that two requests that set disjoint fields both
\* take effect
C29_DisjointUpdatesBothTakeEffect == [][AbsentFieldsUntouched]_vars

(***************************************************************************)
(* Properties of creation with failing lookups, checked under SpecLookup   *)
(***************************************************************************)
\* the creations that took their code as free: the resolver returned it, or
\* ValidateCustomCode accepted it
TookCodeAsFree(r) ==
    /\ r.op = "create"
    /\ r.pc = "insert" \/ (r.pc = "done" /\ r.result \in {"ok", "CreateFailed"})

\* C34: a code is taken as free, by generateUniqueCode or by
\* ValidateCustomCode, only when its store lookup answered not found; a
\* lookup that failed for another reason does not make the code free
C34_FreeOnlyWhenAbsent ==
    \A r \in InFlight \cup {resp} :
        TookCodeAsFree(r) =>
            /\ Len(r.cands) >= 1
            /\ r.cands[Len(r.cands)].code = r.code
            /\ r.cands[Len(r.cands)].answer = "notfound"

(***************************************************************************)
(* Properties of the shutdown, checked under SpecShutdown                  *)
(***************************************************************************)
\* the steps of App.Shutdown in their order
ShutdownOrder == <<"http", "service", "db">>

\* the steps App.Shutdown has performed are the first ones of ShutdownOrder,
\* and all three once it has returned, whatever errors they returned
StepsInOrder ==
    \A q \in Procs :
        req[q].op = "shutdown" =>
            /\ Len(req[q].steps) <= Len(ShutdownOrder)
            /\ \A k \in 1..Len(req[q].steps) : req[q].steps[k].step = ShutdownOrder[k]
            /\ req[q].pc = "closed" => Len(req[q].steps) = Len(ShutdownOrder)

\* the database was not closed while a click recording was pending
ClosedAfterClicks ==
    \A q \in Procs :
        (req[q].op = "shutdown" /\ req[q].pc = "closed") => ~req[q].pendingAtClose

\* C33: App.Shutdown shuts down the HTTP server, then the shortener service,
\* then closes the database, attempts each later step also after an error of
\* an earlier one, and does not close the database while a click recording
\* started by an earlier redirect is pending
C33_ShutdownOrderAndDrain == StepsInOrder /\ ClosedAfterClicks

(***************************************************************************)
(* Properties of the clean-up, checked under SpecCleanup                   *)
(***************************************************************************)
\* the rows a clean-up at time t has to change: active, with an expiry that
\* lies before t
ActiveAndPast(store, t) ==
    { r \in store : r.is_active /\ r.expires_at # {} /\ \A e \in r.expires_at : e < t }

\* C31: a clean-up that returned no error has set is_active to false on
\* exactly the rows that were active with an expiry in the past, has returned
\* their number and has left every other row and every other field as it
\* was; a clean-up called again on the store the last one left, at the same
\* reading of the clock, returns 0 and changes nothing; a clean-up that
\* returned an error has changed nothing and returned 0
C31_CleanupExactlyExpiredActive ==
    resp.op = "cleanup" =>
        /\ resp.result = "ok" =>
              /\ resp.count = Cardinality(ActiveAndPast(resp.rows, resp.at))
              /\ Cardinality(resp.after) = Cardinality(resp.rows)
              /\ \A r \in resp.rows :
                    IF r \in ActiveAndPast(resp.rows, resp.at)
                    THEN [r EXCEPT !.is_active = FALSE] \in resp.after
                    ELSE r \in resp.after
              /\ resp.again => (resp.count = 0 /\ resp.after = resp.rows)
        /\ resp.result # "ok" => (resp.count = 0 /\ resp.after = resp.rows)

\* C31, its case: a clean-up changed one link and left beside it an active
\* link without expiry
C31_Witness ==
    /\ resp.op = "cleanup"
    /\ resp.result = "ok"
    /\ resp.count = 1
    /\ \E r \in resp.rows : r.is_active /\ r.expires_at = {} /\ r \in resp.after

\* C31, its second case: the clean-up was called again on the store a
\* clean-up had changed, at the same time, and found nothing to change
C31_Again ==
    /\ resp.op = "cleanup"
    /\ resp.result = "ok"
    /\ resp.again
    /\ \E r \in resp.rows : ~r.is_active /\ r.expires_at # {} /\ r.short_code \notin retired

\* a clean-up was called at the very time an active link expires
C31_AtExpiry ==
    /\ resp.op = "cleanup"
    /\ resp.result = "ok"
    /\ \E r \in resp.rows : r.is_active /\ r.expires_at = {resp.at}

(***************************************************************************)
(* Properties of the pure functions, checked under SpecPure                *)
(***************************************************************************)
\* the characters a-z, A-Z and 0-9, written out
Alphanumeric ==
    {"a","b","c","d","e","f","g","h","i","j","k","l","m","n","o","p","q","r","s",
     "t","u","v","w","x","y","z","A","B","C","D","E","F","G","H","I","J","K","L",
     "M","N","O","P","Q","R","S","T","U","V","W","X","Y","Z","0","1","2","3","4",
     "5","6","7","8","9"}

\* the fixed reserved set, written out
FixedReserved ==
    { <<"a","p","i">>, <<"w","w","w">>, <<"a","d","m","i","n">>, <<"r","o","o","t">>,
      <<"n","u","l","l">>, <<"u","n","d","e","f","i","n","e","d">> }

\* the verdict the stated order of checks gives for a text
FirstFailingCheck(s) ==
    IF Len(s) = 0 THEN "ok"
    ELSE IF Len(s) < 2 THEN "ErrCustomCodeTooShort"
    ELSE IF Len(s) > 50 THEN "ErrCustomCodeTooLong"
    ELSE IF \E i \in 1..Len(s) : s[i] \notin Alphanumeric \cup {"_", "-"}
         THEN "ErrInvalidCustomCode"
    ELSE IF \E w \in FixedReserved :
               /\ Len(w) = Len(s)
               /\ \A i \in 1..Len(s) : s[i] = w[i] \/ s[i] = ToUpperChar(w[i])
         THEN "ErrReservedCode"
    ELSE "ok"

\* C18: models.ValidateCustomCode returns ok for the empty text and otherwise
\* the error of the first failing check in the order too short (below 2), too
\* long (above 50), invalid format (a character outside [a-zA-Z0-9_-]),
\* reserved (equal to a fixed reserved word ignoring case); ok exactly when no
\* check fails
C18_FirstFailingCheck ==
    resp.op = "ValidateCustomCode" => resp.result = FirstFailingCheck(resp.shortCode)

\* a text of one character outside the alphabet was validated: it is both too
\* short and badly formatted, and the order of the checks decides
C18_Witness ==
    /\ resp.op = "ValidateCustomCode"
    /\ resp.shortCode = <<"@">>
    /\ resp.result = "ErrCustomCodeTooShort"

\* C19: for every generator length L in 4..12 and every value of the random
\* source, Generate returns exactly L characters, all of the 62-symbol
\* alphabet, so that the code satisfies IsValidCode
C19_GenerateLengthAndAlphabet ==
    resp.op = "Generate" =>
        /\ resp.newLength \in 4..12
        /\ Len(resp.code) = resp.newLength
        /\ \A i \in 1..Len(resp.code) : resp.code[i] \in Alphanumeric
        /\ IsValidCode(resp.code)

\* a generator of length 12 was handed a value of one base-62 digit and
\* returned a code padded to 12 characters
C19_Witness ==
    /\ resp.op = "Generate"
    /\ resp.newLength = 12
    /\ resp.randomValue \in 1..61
    /\ Len(resp.code) = 12

\* C20: IsValidCode(s) is true exactly when s has 4 to 12 characters, all of
\* them in a-z, A-Z or 0-9
C20_IsValidCodeExactly ==
    resp.op = "IsValidCode" =>
        ((resp.result = "true") <=>
            /\ Len(resp.shortCode) >= 4
            /\ Len(resp.shortCode) <= 12
            /\ \A i \in 1..Len(resp.shortCode) : resp.shortCode[i] \in Alphanumeric)

\* a text of valid length that contains '-' was refused
C20_Witness ==
    /\ resp.op = "IsValidCode"
    /\ Len(resp.shortCode) = 7
    /\ \E i \in 1..7 : resp.shortCode[i] = "-"
    /\ resp.result = "false"

\* the digit order a..z A..Z 0..9, written out
DigitOrder ==
    <<"a","b","c","d","e","f","g","h","i","j","k","l","m","n","o","p","q","r","s",
      "t","u","v","w","x","y","z","A","B","C","D","E","F","G","H","I","J","K","L",
      "M","N","O","P","Q","R","S","T","U","V","W","X","Y","Z","0","1","2","3","4",
      "5","6","7","8","9">>

DigitValue(c) == (CHOOSE i \in 1..62 : DigitOrder[i] = c) - 1

RECURSIVE PositionalValue(_)
\* the number a text denotes, most significant digit first
PositionalValue(text) ==
    IF text = <<>> THEN 0
    ELSE PositionalValue(SubSeq(text, 1, Len(text) - 1)) * 62 + DigitValue(text[Len(text)])

\* C21: for a generator of length L and a value v below 62^L, toBase62(v) has
\* L characters and denotes v in base 62 with the digit order a..z A..Z 0..9,
\* most significant digit first, padded on the left with 'a'; at L = 7 the
\* values 0, 1, 61, 62 give aaaaaaa, aaaaaab, aaaaaa9, aaaaaba; another value
\* of the keyspace gives another code
C21_PositionalRepresentation ==
    resp.op = "Generate" =>
        /\ Len(resp.code) = resp.newLength
        /\ \A i \in 1..Len(resp.code) : \E k \in 1..62 : DigitOrder[k] = resp.code[i]
        /\ PositionalValue(resp.code) = resp.randomValue
        /\ (resp.newLength = 7 /\ resp.randomValue = 0) =>
               resp.code = <<"a","a","a","a","a","a","a">>
        /\ (resp.newLength = 7 /\ resp.randomValue = 1) =>
               resp.code = <<"a","a","a","a","a","a","b">>
        /\ (resp.newLength = 7 /\ resp.randomValue = 61) =>
               resp.code = <<"a","a","a","a","a","a","9">>
        /\ (resp.newLength = 7 /\ resp.randomValue = 62) =>
               resp.code = <<"a","a","a","a","a","b","a">>
        /\ \A w \in GenerateValueInputs :
               (InKeyspace(w, resp.newLength) /\ w # resp.randomValue)
                   => Generate(resp.newLength, w) # resp.code

\* C21, its case: the value 62, the least of two digits, at length 7
C21_Witness ==
    /\ resp.op = "Generate"
    /\ resp.newLength = 7
    /\ resp.randomValue = 62
    /\ resp.code = <<"a","a","a","a","a","b","a">>

\* C23 as stated: NormalizeURL("example.com") is "https://example.com" and
\* NormalizeURL("HTTP://EXAMPLE.COM:80/") is "http://example.com" (scheme
\* added only when none is present, host in lower case, the path "/"
\* dropped, the default port stripped)
C23_NormalizeExamples ==
    resp.op = "NormalizeURL" =>
        /\ resp.url = URL_example =>
              (resp.result = "ok" /\ resp.out = <<"h","t","t","p","s",":","/","/","e","x","a","m","p","l","e",".","c","o","m">>)
        /\ resp.url = URL_EXAMPLE =>
              (resp.result = "ok" /\ resp.out = <<"h","t","t","p",":","/","/","e","x","a","m","p","l","e",".","c","o","m">>)

\* C24 as stated: for every target x that ValidateURL accepts,
\* NormalizeURL(NormalizeURL(x)) succeeds and equals NormalizeURL(x)
C24_NormalizeIdempotent ==
    (resp.op = "NormalizeURL" /\ resp.valid = "ok") =>
        /\ resp.result = "ok"
        /\ resp.result2 = "ok"
        /\ resp.out2 = resp.out

(***************************************************************************)
(* Properties of GenerateBatch, checked under SpecBatch                    *)
(***************************************************************************)
\* C22: GenerateBatch(n) fails for every n <= 0 and, for n >= 1, returns
\* exactly n codes, pairwise distinct, each of the generator's length and of
\* 4 to 12 characters of [a-zA-Z0-9]; it never reads or writes the store,
\* and a code drawn twice is drawn again, not returned twice
C22_BatchOfExactlyN ==
    resp.op = "batch" =>
        /\ resp.batchCount <= 0 =>
              (resp.result = "ErrCountNotPositive" /\ resp.batch = <<>>)
        /\ resp.batchCount >= 1 =>
              /\ resp.result = "ok"
              /\ Len(resp.batch) = resp.batchCount
              /\ \A i, j \in 1..Len(resp.batch) : i # j => resp.batch[i] # resp.batch[j]
              /\ \A i \in 1..Len(resp.batch) :
                    /\ Len(resp.batch[i]) = resp.codeLength
                    /\ Len(resp.batch[i]) \in 4..12
                    /\ \A k \in 1..Len(resp.batch[i]) : resp.batch[i][k] \in Alphanumeric
              /\ resp.generated >= resp.batchCount
        /\ resp.lookups = 0
        /\ urls = {}

\* C22, its case: a batch of two or more codes was returned after a code
\* drawn twice had been discarded
C22_Witness ==
    /\ resp.op = "batch"
    /\ resp.result = "ok"
    /\ resp.batchCount >= 2
    /\ resp.generated > resp.batchCount

(***************************************************************************)
(* Properties of codes and validation, checked under SpecCodes             *)
(***************************************************************************)
CreatedOk(r) == r.op = "create" /\ r.result = "ok"

\* C14 as stated: every link in the store has a code of 4 to 12 characters
\* drawn only from [a-zA-Z0-9], whichever path created it
C14_AllCodesFourToTwelve ==
    \A u \in urls :
        /\ Len(u.short_code) >= 4
        /\ Len(u.short_code) <= 12
        /\ \A i \in 1..Len(u.short_code) : u.short_code[i] \in Alphanumeric

\* C14, amended: a code stored by the random path has 4 to 12 characters of
\* [a-zA-Z0-9]; a code stored by the custom path is the caller's text, of 2
\* to 50 characters of [a-zA-Z0-9_-]; every stored code is of one of the two
\* kinds
C14_CodesByPath ==
    /\ \A u \in urls :
          /\ Len(u.short_code) >= 2
          /\ Len(u.short_code) <= 50
          /\ \A i \in 1..Len(u.short_code) : u.short_code[i] \in Alphanumeric \cup {"_", "-"}
    /\ (CreatedOk(resp) /\ RandomCreate(resp)) =>
          /\ Len(resp.code) >= 4
          /\ Len(resp.code) <= 12
          /\ \A i \in 1..Len(resp.code) : resp.code[i] \in Alphanumeric
    /\ (CreatedOk(resp) /\ CustomCreate(resp)) => resp.code = resp.shortCode

\* C14, its case: the store holds a custom code of two characters next to a
\* generated code
C14_Witness ==
    /\ \E u \in urls : u.short_code = Code_ab
    /\ \E u \in urls : u.short_code = Code_root
    /\ CreatedOk(resp)

\* C15 as stated: no creation, custom or random, stores a link whose code is
\* in the fixed reserved set ignoring case or in the stored reserved codes
\* when it is created
C15_NoReservedCodeStored ==
    /\ \A u \in urls : ToLower(u.short_code) \notin FixedReserved
    /\ CreatedOk(resp) =>
          (ToLower(resp.code) \notin FixedReserved /\ resp.code \notin resp.reservedAt)

\* C16 as stated: the service's ValidateCustomCode reports Reserved for a
\* custom code that equals, ignoring case, a member of the fixed reserved
\* set or a reserved code stored when it asks the store
C16_ReservedIgnoringCase ==
    (resp.op = "create" /\ CustomCreate(resp) /\ resp.target # <<>>
        /\ \E w \in FixedReserved \cup resp.reservedSeen :
               ToLower(w) = ToLower(resp.shortCode))
    => resp.result = "ErrReservedCode"

\* the results that name a validation reason
ValidationErrors ==
    {"ErrInvalidURL", "ErrURLTooLong", "ErrMaliciousURL", "ErrCustomCodeTooShort",
     "ErrCustomCodeTooLong", "ErrInvalidCustomCode", "ErrReservedCode",
     "ErrCustomCodeTaken"}

\* the creations with a custom code whose URL was accepted and normalized
\* and that have been answered
CustomAnswered(r) ==
    /\ r.op = "create"
    /\ r.shortCode # <<>>
    /\ r.pc = "done"
    /\ r.target # <<>>

\* C28: a creation with a custom code is answered with the verdict of the
\* format, length and fixed reserved set checks when that is not ok, whatever
\* is stored; otherwise with ErrReservedCode when the code is among the stored
\* reserved codes, without any lookup of the code, also when a link has it;
\* ErrCustomCodeTaken is answered only for a code that passed both checks and
\* whose lookup found a link, and the creation goes on to the insert only
\* when that lookup found none
C28_CustomCodeCheckOrder ==
    \A r \in InFlight \cup {resp} :
        CustomAnswered(r) =>
            IF ValidateCustomCode(r.shortCode) # "ok"
            THEN r.result = ValidateCustomCode(r.shortCode) /\ r.lookups = 0
            ELSE IF r.shortCode \in r.reservedSeen
            THEN r.result = "ErrReservedCode" /\ r.lookups = 0
            ELSE /\ r.lookups = 1
                 /\ r.cands[1].code = r.shortCode
                 /\ r.result = "ErrCustomCodeTaken" <=> r.cands[1].answer = "none"
                 /\ r.result \in {"ErrCustomCodeTaken", "ok", "CreateFailed"}

\* C28, its case: a code that is stored as reserved and is the code of a
\* deactivated link was answered with ErrReservedCode
C28_Witness ==
    /\ CustomAnswered(resp)
    /\ resp.result = "ErrReservedCode"
    /\ resp.shortCode \in resp.reservedSeen
    /\ \E u \in urls : u.short_code = resp.shortCode /\ ~u.is_active

\* a deactivated link's code was answered with ErrCustomCodeTaken
C28_TakenByInactive ==
    /\ CustomAnswered(resp)
    /\ resp.result = "ErrCustomCodeTaken"
    /\ \E u \in urls : u.short_code = resp.shortCode /\ ~u.is_active

\* C17: a CreateShortURL or UpdateURL request rejected for a validation
\* reason has written nothing to the store, and a request whose target fails
\* ValidateURL writes nothing
C17_RejectedWritesNothing ==
    resp.op \in {"create", "update"} =>
        /\ resp.result \in ValidationErrors => (resp.writes = 0 /\ resp.id = 0)
        /\ (resp.url # <<>> /\ ValidateURL(resp.url) # "ok") => resp.writes = 0

\* C17, its case: an update with a target that has no scheme was rejected and
\* the link still has the target it was created with
C17_Witness ==
    /\ resp.op = "update"
    /\ resp.url = URL_NoScheme
    /\ resp.result = "ErrInvalidURL"
    /\ resp.writes = 0
    /\ \E u \in urls, o \in origin :
          u.short_code = resp.shortCode /\ o.id = u.id /\ u.target_url = o.target

(***************************************************************************)
(* Properties of click recording, checked under SpecClick                  *)
(***************************************************************************)
\* C11: the outcome of a redirect that carries a click context is decided by
\* the row it read alone: it returns the link exactly when the row was
\* accessible when checked, and one of the three redirect errors otherwise,
\* whatever the goroutine it started has done or not done by then
C11_RedirectIgnoresRecording ==
    (Redirected(resp) /\ resp.clickCtx # "nil") =>
        /\ resp.result \in RedirectErrors \cup {"ok"}
        /\ (resp.result = "ok") <=> (\E u \in resp.rows : IsAccessible(u, resp.checkAt))
        /\ resp.result = "ok" =>
              \E u \in resp.rows : resp.out = u.target_url /\ resp.id = u.id

\* C11, its case: a redirect returned the link and the recording it started
\* has failed
C11_Witness ==
    /\ Redirected(resp)
    /\ resp.result = "ok"
    /\ resp.task \in 1..Len(tasks)
    /\ tasks[resp.task].pc = "done"
    /\ tasks[resp.task].err = "failed"

\* the recordings that redirects started
RedirectTasks == { i \in 1..Len(tasks) : tasks[i].via = "redirect" }

\* C12: no click recording that a redirect started ends, in its insert or in
\* its counter update, because the context of the request was cancelled: a
\* recording that was not skipped for DNT and met no store failure has
\* inserted its click event
C12_RecordingOnOwnContext ==
    \A i \in RedirectTasks :
        /\ tasks[i].err # "canceled"
        /\ tasks[i].counterErr # "canceled"
        /\ (tasks[i].pc # "record" /\ ~tasks[i].skipped /\ tasks[i].err = "none") =>
              \E e \in click_events : e.id = tasks[i].event /\ e.url_id = tasks[i].url_id

\* C12, its case: the request's context was cancelled before the goroutine
\* reached its insert, and the click event and the counter were written
C12_Witness ==
    \E i \in RedirectTasks :
        /\ tasks[i].requestDoneAtInsert
        /\ tasks[i].event # 0
        /\ tasks[i].counted

\* C25: a recording whose counter update failed after its click event was
\* inserted reports no error and its click event is in the store; a
\* recording whose insert failed reports the error, inserted nothing and
\* never called the counter update
C25_CounterBestEffortInsertStrict ==
    \A i \in 1..Len(tasks) :
        /\ tasks[i].counterErr = "failed" =>
              /\ tasks[i].pc = "done"
              /\ tasks[i].err = "none"
              /\ \E e \in click_events :
                    e.id = tasks[i].event /\ e.url_id = tasks[i].url_id
        /\ tasks[i].err = "failed" =>
              /\ tasks[i].pc = "done"
              /\ tasks[i].event = 0
              /\ ~tasks[i].counterTried
              /\ ~tasks[i].counted

\* C25, its case: one recording lost its counter update and kept its click
\* event, another failed in its insert
C25_Witness ==
    \E i, j \in 1..Len(tasks) :
        /\ tasks[i].counterErr = "failed"
        /\ tasks[i].event # 0
        /\ tasks[j].err = "failed"

RECURSIVE SumClicks(_)
\* the clicks of a set of counter rows, added up
SumClicks(rows) ==
    IF rows = {} THEN 0
    ELSE LET c == CHOOSE x \in rows : TRUE IN c.clicks + SumClicks(rows \ {c})

\* what holds of the recordings, the click events and the counters in every
\* state
ClicksAccountedFor ==
    /\ \A i \in RedirectTasks : tasks[i].clickCtx # "nil"
    /\ \A i \in 1..Len(tasks) :
          /\ tasks[i].clickCtx = "nil" =>
                (tasks[i].event = 0 /\ ~tasks[i].counterTried /\ ~tasks[i].counted)
          /\ (RespectDNT /\ tasks[i].clickCtx = "dnt") =>
                (tasks[i].event = 0 /\ ~tasks[i].counterTried /\ ~tasks[i].counted)
          /\ tasks[i].counterTried => tasks[i].event # 0
          /\ tasks[i].counted => tasks[i].counterTried
    /\ \A e \in click_events :
          \E i \in 1..Len(tasks) : tasks[i].event = e.id /\ tasks[i].url_id = e.url_id
    /\ Cardinality(click_events) = Cardinality({ i \in 1..Len(tasks) : tasks[i].event # 0 })
    /\ SumClicks(counters) = Cardinality({ i \in 1..Len(tasks) : tasks[i].counted })
    /\ (Redirected(resp) /\ resp.result \in RedirectErrors) => resp.task = 0
    /\ (Redirected(resp) /\ resp.clickCtx = "nil") => resp.task = 0
    /\ \A r \in InFlight :
          (Redirected(r) /\ r.task # 0) =>
              (r.pc = "redirectReturn" /\ r.task \in RedirectTasks)

\* a step that starts a recording is the accessibility check of a redirect
\* that carries a click context and found its row accessible
StartedBySuccessfulRedirect ==
    (Len(tasks') > Len(tasks) /\ tasks'[Len(tasks')].via = "redirect") =>
        \E p \in Procs :
            /\ req[p].pc = "redirectCheck"
            /\ req[p].clickCtx # "nil"
            /\ EnableAnalytics
            /\ \E u \in req[p].rows : IsAccessible(u, now)
            /\ req'[p].pc = "redirectReturn"

\* C30: a click is recorded (event inserted, then counter incremented) only
\* by a recording that a successful redirect started with analytics enabled
\* and a click context, and never for a context with DNT while RespectDNT is
\* on; a redirect that ends in NotFound, Inactive or Expired starts no
\* recording, so that every click event and every counted click belongs to
\* such a recording
C30_ClickOnlyForRecordedRedirect ==
    []ClicksAccountedFor /\ [][StartedBySuccessfulRedirect]_vars

\* C30, its case: after a redirect whose click was recorded and counted, the
\* link was deactivated and a second redirect with a click context ended in
\* ErrURLInactive without a recording
C30_Witness ==
    /\ Redirected(resp)
    /\ resp.result = "ErrURLInactive"
    /\ resp.clickCtx = "plain"
    /\ Len(tasks) = 1
    /\ tasks[1].via = "redirect"
    /\ tasks[1].counted
    /\ Cardinality(click_events) = 1

(***************************************************************************)
(* Properties of the click counts, checked under SpecCount                 *)
(***************************************************************************)
\* Repository.getClickCountFromEvents: SELECT COUNT(*) FROM click_events
\* WHERE url_id = $1; an error of the query is returned with the count 0
getClickCountFromEvents(events, urlID, fail) ==
    IF fail THEN [count |-> 0, err |-> "failed"]
    ELSE [count |-> Cardinality({ e \in events : e.url_id = urlID }), err |-> "none"]

\* Repository.GetClickCount: SELECT COALESCE(SUM(clicks), 0) FROM
\* url_counters_live WHERE url_id = $1 and, when that query fails, the
\* count of the click events instead
GetClickCount(rows, events, urlID, shardFail, eventsFail) ==
    IF shardFail THEN getClickCountFromEvents(events, urlID, eventsFail)
    ELSE [count |-> SumClicks({ c \in rows : c.url_id = urlID }), err |-> "none"]

\* the click events stored for a link
EventsOf(urlID) == { e \in click_events : e.url_id = urlID }

\* C35: for every link, the click count GetClickCount returns, summed over
\* its counter shards or, when that query fails, counted from the events, is
\* at most the number of click events stored for it, under every
\* interleaving of the recordings and every failure of their two writes
C35_CountAtMostEvents ==
    \A u \in urls, shardFail \in BOOLEAN, eventsFail \in BOOLEAN :
        GetClickCount(counters, click_events, u.id, shardFail, eventsFail).count
            <= Cardinality(EventsOf(u.id))

\* C35, its case: two links each have a click event; the click of one is
\* counted and the counter update of the other failed
C35_Witness ==
    \E u, v \in urls :
        /\ Cardinality(EventsOf(u.id)) = 1
        /\ GetClickCount(counters, click_events, u.id, FALSE, FALSE).count = 1
        /\ Cardinality(EventsOf(v.id)) = 1
        /\ GetClickCount(counters, click_events, v.id, FALSE, FALSE).count = 0
        /\ GetClickCount(counters, click_events, v.id, TRUE, FALSE).count = 1
        /\ \E i \in 1..Len(tasks) : tasks[i].url_id = v.id /\ tasks[i].counterErr = "failed"

(***************************************************************************)
(* The LRU cache under concurrent callers: every method runs under c.mu,   *)
(* so the calls of any number of goroutines form one sequence of calls.    *)
(***************************************************************************)
MaxCapacity == 2
MaxTTL == 2
MaxClock == 3
MaxCacheCalls == 4

\* the keys and values the callers use
CacheKeys == {"k1", "k2", "k3"}
CacheValues == {1, 2}

\* f with key mapped to v
Put(f, key, v) == [k \in DOMAIN f \cup {key} |-> IF k = key THEN v ELSE f[k]]

\* what is left alone by a call on the LRU
CacheOnly ==
    UNCHANGED <<urls, nextID, reserved, now, generator, req, resp, started, origin,
                updated, retired, tasks, click_events, counters, limiter, limiterHist>>

\* the record of a call on the LRU
CacheCalled(op, key, value, ok, lastSet, lastUse) ==
    [op |-> op, key |-> key, value |-> value, ok |-> ok, at |-> clock,
     calls |-> cacheHist.calls + 1, before |-> cache, lastSet |-> lastSet,
     lastUse |-> lastUse, usedBefore |-> cacheHist.lastUse]

\* a goroutine calls Get(key)
CacheGet(key) ==
    /\ cacheHist.calls < MaxCacheCalls
    /\ \E o \in {LRUGet(cache, key, clock)} :
        /\ cache' = o.cache
        /\ cacheHist' = CacheCalled("get", key, o.value, o.ok, cacheHist.lastSet,
                            IF o.ok THEN Put(cacheHist.lastUse, key, cacheHist.calls + 1)
                            ELSE cacheHist.lastUse)
    /\ UNCHANGED clock
    /\ CacheOnly

\* a goroutine calls Set(key, value)
CacheSet(key, value) ==
    /\ cacheHist.calls < MaxCacheCalls
    /\ cache' = LRUSet(cache, key, value, clock)
    /\ cacheHist' = CacheCalled("set", key, value, TRUE,
                        Put(cacheHist.lastSet, key, clock),
                        Put(cacheHist.lastUse, key, cacheHist.calls + 1))
    /\ UNCHANGED clock
    /\ CacheOnly

\* a goroutine calls Delete(key)
CacheDelete(key) ==
    /\ cacheHist.calls < MaxCacheCalls
    /\ cache' = LRUDelete(cache, key)
    /\ cacheHist' = CacheCalled("delete", key, 0, key \in cache.items,
                        cacheHist.lastSet, cacheHist.lastUse)
    /\ UNCHANGED clock
    /\ CacheOnly

\* a goroutine calls Len()
CacheLen ==
    /\ cacheHist.calls < MaxCacheCalls
    /\ cacheHist' = CacheCalled("len", "", LRULen(cache), TRUE,
                        cacheHist.lastSet, cacheHist.lastUse)
    /\ UNCHANGED <<cache, clock>>
    /\ CacheOnly

\* time passes
ClockTick ==
    /\ clock < MaxClock
    /\ clock' = clock + 1
    /\ UNCHANGED <<urls, nextID, reserved, now, generator, req, resp, started, origin,
                   updated, retired, tasks, click_events, counters, cache, cacheHist,
                   limiter, limiterHist>>

\* a cache constructed with a capacity of at least one and a TTL
InitCache ==
    /\ urls = {}
    /\ nextID = 1
    /\ reserved = {}
    /\ now = 0
    /\ generator = [i \in Instances |-> DefaultCodeLength]
    /\ req = [p \in Procs |-> IdleReq]
    /\ resp = IdleReq
    /\ started = 0
    /\ origin = {}
    /\ updated = {}
    /\ retired = {}
    /\ tasks = <<>>
    /\ click_events = {}
    /\ counters = {}
    /\ \E capacity \in 1..MaxCapacity, ttl \in 0..MaxTTL : cache = NewLRU(capacity, ttl)
    /\ cacheHist = NoCacheCall
    /\ limiter = NewRateLimiter(1, 1)
    /\ limiterHist = NoLimiterCall
    /\ clock = 0

NextCache ==
    \/ \E key \in CacheKeys : CacheGet(key)
    \/ \E key \in CacheKeys, value \in CacheValues : CacheSet(key, value)
    \/ \E key \in CacheKeys : CacheDelete(key)
    \/ CacheLen
    \/ ClockTick

SpecCache == InitCache /\ [][NextCache]_vars

\* the keys the recency list carries
ListKeys(c) == { c.order[i].key : i \in 1..Len(c.order) }

\* no key is carried by two elements of the list
EachKeyOnce(c) ==
    \A i, j \in 1..Len(c.order) : c.order[i].key = c.order[j].key => i = j

\* C36: for a cache of capacity C >= 1, after any sequence of Set, Get and
\* Delete calls of any number of goroutines, Len() is at most C, and the key
\* map and the recency list hold the same set of keys, each exactly once
C36_LenWithinCapacityAndMapMatchesList ==
    /\ LRULen(cache) <= cache.capacity
    /\ cache.items = ListKeys(cache)
    /\ EachKeyOnce(cache)

\* C36, its case: Set inserted a new key into a cache of capacity two that
\* was full, and the cache is full again
C36_Witness ==
    /\ cacheHist.op = "set"
    /\ cache.capacity = 2
    /\ LRULen(cacheHist.before) = 2
    /\ cacheHist.key \notin cacheHist.before.items
    /\ LRULen(cache) = 2

\* the last call was a Set of a key the cache did not hold, made when the
\* cache was full
InsertedIntoFull ==
    /\ cacheHist.op = "set"
    /\ cacheHist.key \notin cacheHist.before.items
    /\ LRULen(cacheHist.before) = cacheHist.before.capacity

\* the last call was a Set of a key the cache held
Overwrote ==
    /\ cacheHist.op = "set"
    /\ cacheHist.key \in cacheHist.before.items

\* the keys the last call took out of the cache
Evicted == cacheHist.before.items \ cache.items

\* the key, of those the cache held before the last call, whose last use (a
\* Get hit or a Set) is the oldest
LeastRecentlyUsed ==
    { k \in cacheHist.before.items :
        \A o \in cacheHist.before.items : cacheHist.usedBefore[k] <= cacheHist.usedBefore[o] }

\* C37: a Set that inserts a new key into a full cache evicts exactly one
\* entry, the least recently used one, a Get hit and a Set each counting as a
\* use; a Set that overwrites an existing key evicts nothing and leaves Len
\* unchanged
C37_EvictsLeastRecentlyUsed ==
    /\ InsertedIntoFull =>
        /\ Cardinality(Evicted) = 1
        /\ Evicted = LeastRecentlyUsed
        /\ cache.items = (cacheHist.before.items \ Evicted) \cup {cacheHist.key}
    /\ Overwrote =>
        /\ Evicted = {}
        /\ cache.items = cacheHist.before.items
        /\ LRULen(cache) = LRULen(cacheHist.before)

\* C37, its case: an insert into a full cache of capacity two evicted the key
\* that was set later than the one that stays, the older one having been read
\* since
C37_Witness ==
    /\ InsertedIntoFull
    /\ cache.capacity = 2
    /\ \E e \in Evicted, k \in cacheHist.before.items \ Evicted :
        cacheHist.lastSet[e] > cacheHist.lastSet[k]

\* C37, its other case: a Set overwrote the least recently used key of a full
\* cache of capacity two
C37_Overwrite ==
    /\ Overwrote
    /\ cache.capacity = 2
    /\ LRULen(cacheHist.before) = 2
    /\ cacheHist.key \in LeastRecentlyUsed
    /\ cacheHist.value # cacheHist.before.order[2].value

\* Get returned a value for its key
GetHit == cacheHist.op = "get" /\ cacheHist.ok

\* Get was called for a key the cache held and returned no value
GetMissOnHeld ==
    /\ cacheHist.op = "get"
    /\ ~cacheHist.ok
    /\ cacheHist.key \in cacheHist.before.items

\* the time at which the TTL of the entry of the key has elapsed, counted from
\* the last Set of the key
Deadline(key) == cacheHist.lastSet[key] + cache.ttl

\* C38: Get never returns a value whose TTL has elapsed since the last Set of
\* the key: a hit happens no later than TTL after that Set and returns the
\* value it stored; a Get later than that on an entry still held is a miss and
\* removes the entry; a Set on an existing key restarts the TTL and a Get hit
\* leaves the expiry as it was
C38_NoValuePastTTL ==
    /\ GetHit =>
        /\ cacheHist.at <= Deadline(cacheHist.key)
        /\ cacheHist.value = cacheHist.before.order[ElementOf(cacheHist.before, cacheHist.key)].value
    /\ GetMissOnHeld =>
        /\ cacheHist.at > Deadline(cacheHist.key)
        /\ cacheHist.key \notin cache.items
    /\ \A i \in 1..Len(cache.order) : cache.order[i].expiresAt = Deadline(cache.order[i].key)

\* C38, its case: an entry last set at time 0 with a TTL of one, and used
\* again after the first call, is asked for at time 2: the Get is a miss and
\* removed it
C38_Witness ==
    /\ GetMissOnHeld
    /\ cache.ttl = 1
    /\ cacheHist.at = 2
    /\ cacheHist.lastSet[cacheHist.key] = 0
    /\ cacheHist.usedBefore[cacheHist.key] > 1

\* C38, its other case: a Set at time 2 overwrote an entry whose expiry was
\* time 1, and the entry now expires at time 3
C38_Restarted ==
    /\ Overwrote
    /\ cacheHist.at = 2
    /\ cacheHist.before.order[ElementOf(cacheHist.before, cacheHist.key)].expiresAt = 1
    /\ cache.order[1].key = cacheHist.key
    /\ cache.order[1].expiresAt = 3

(***************************************************************************)
(* The rate limiter: Allow and cleanup_stale run under rl.mu.Lock() and    *)
(* RemainingTokens under RLock, so each call is one step.                  *)
(***************************************************************************)
MaxRate == 2
MaxWindow == 2
MaxLimiterCalls == 5

\* the client addresses that send requests
ClientIPs == {"ip1", "ip2"}

\* what is left alone by a call on the limiter
LimiterOnly ==
    UNCHANGED <<urls, nextID, reserved, now, generator, req, resp, started, origin,
                updated, retired, tasks, click_events, counters, cache, cacheHist, clock>>

\* a request of ip at time t opens a new period: it is the first request of
\* the ip, or it arrives at least window after the request that opened the
\* current period
OpensPeriod(seen, ip, t) ==
    \/ ip \notin DOMAIN seen
    \/ t - seen[ip].resetAt >= limiter.window

\* the requests of each ip so far: when its current period was opened and how
\* many requests the period has had, this one included
Seen(seen, ip, t) ==
    Put(seen, ip,
        IF OpensPeriod(seen, ip, t) THEN [resetAt |-> t, n |-> 1]
        ELSE [resetAt |-> seen[ip].resetAt, n |-> seen[ip].n + 1])

\* a request of ip reaches the middleware, which calls Allow(ip)
AllowCall(ip) ==
    /\ limiterHist.calls < MaxLimiterCalls
    /\ \E o \in {Allow(limiter, ip, clock)}, u \in {Allow(limiterHist.uncleaned, ip, clock)} :
        /\ limiter' = o.limiter
        /\ limiterHist' =
            [op |-> "allow", ip |-> ip, ok |-> o.ok, value |-> 0, at |-> clock,
             calls |-> limiterHist.calls + 1, before |-> limiter,
             seen |-> Seen(limiterHist.seen, ip, clock),
             uncleaned |-> u.limiter, okUncleaned |-> u.ok,
             grants |-> IF o.ok
                        THEN Put(limiterHist.grants, ip,
                                 IF ip \in DOMAIN limiterHist.grants
                                 THEN Append(limiterHist.grants[ip], clock)
                                 ELSE <<clock>>)
                        ELSE limiterHist.grants]
    /\ LimiterOnly

\* a caller asks RemainingTokens(ip)
RemainingTokensCall(ip) ==
    /\ limiterHist.calls < MaxLimiterCalls
    /\ limiterHist' = [limiterHist EXCEPT
                          !.op = "remaining", !.ip = ip, !.ok = TRUE,
                          !.value = RemainingTokens(limiter, ip, clock),
                          !.at = clock, !.calls = @ + 1, !.before = limiter]
    /\ UNCHANGED limiter
    /\ LimiterOnly

\* the cleanup loop's ticker fires and cleanup_stale removes at least one entry
CleanupStale ==
    /\ cleanup_stale(limiter, clock) # limiter
    /\ limiter' = cleanup_stale(limiter, clock)
    /\ limiterHist' = [limiterHist EXCEPT
                          !.op = "cleanup", !.ip = "", !.ok = TRUE, !.value = 0,
                          !.at = clock, !.before = limiter]
    /\ LimiterOnly

\* a limiter constructed with a rate of at least one and a window
InitLimiter ==
    /\ urls = {}
    /\ nextID = 1
    /\ reserved = {}
    /\ now = 0
    /\ generator = [i \in Instances |-> DefaultCodeLength]
    /\ req = [p \in Procs |-> IdleReq]
    /\ resp = IdleReq
    /\ started = 0
    /\ origin = {}
    /\ updated = {}
    /\ retired = {}
    /\ tasks = <<>>
    /\ click_events = {}
    /\ counters = {}
    /\ cache = NewLRU(1, 1)
    /\ cacheHist = NoCacheCall
    /\ \E rate \in 1..MaxRate, window \in 0..MaxWindow :
        /\ limiter = NewRateLimiter(rate, window)
        /\ limiterHist = [NoLimiterCall EXCEPT !.before = NewRateLimiter(rate, window),
                                               !.uncleaned = NewRateLimiter(rate, window)]
    /\ clock = 0

NextLimiter ==
    \/ \E ip \in ClientIPs : AllowCall(ip)
    \/ \E ip \in ClientIPs : RemainingTokensCall(ip)
    \/ CleanupStale
    \/ ClockTick

SpecLimiter == InitLimiter /\ [][NextLimiter]_vars

\* the last call was Allow
Allowed == limiterHist.op = "allow"

\* Allow answered true for the first rate requests of the period and false
\* for the later ones
FirstRateRequestsGranted ==
    Allowed => (limiterHist.ok <=> limiterHist.seen[limiterHist.ip].n <= limiter.rate)

\* every entry's token count is within 0..rate-1
TokensInRange ==
    \A ip \in DOMAIN limiter.clients :
        limiter.clients[ip].tokens \in 0..(limiter.rate - 1)

\* a request of one ip leaves the entries of the others as they were
OtherClientsUntouched ==
    Allowed =>
        \A ip \in ClientIPs \ {limiterHist.ip} :
            /\ ip \in DOMAIN limiter.clients <=> ip \in DOMAIN limiterHist.before.clients
            /\ ip \in DOMAIN limiter.clients =>
                limiter.clients[ip] = limiterHist.before.clients[ip]

\* Allow answers as it would have answered had no entry ever been removed
CleanupInvisible == Allowed => limiterHist.ok = limiterHist.okUncleaned

\* C39: for a limiter of rate R >= 1 and each client ip, between two
\* consecutive resets of the ip's entry Allow returns true for exactly the
\* first R requests and false for the later ones, the token count stays
\* within 0..R-1, requests of one ip never change another ip's tokens, and the
\* removal of a stale entry by the cleanup loop never changes the result of a
\* later Allow
C39_FirstRateRequestsPerPeriod ==
    /\ FirstRateRequestsGranted
    /\ TokensInRange
    /\ OtherClientsUntouched
    /\ CleanupInvisible

\* C39, its case: with a rate of two, the third request of an ip within one
\* period is refused while the other ip holds an entry
C39_Witness ==
    /\ Allowed
    /\ limiter.rate = 2
    /\ ~limiterHist.ok
    /\ limiterHist.seen[limiterHist.ip].n = 3
    /\ \E ip \in DOMAIN limiter.clients : ip # limiterHist.ip

\* C39, its other case: an ip whose entry the cleanup loop removed asks again
\* and is allowed
C39_AfterCleanup ==
    /\ Allowed
    /\ limiterHist.ip \notin DOMAIN limiterHist.before.clients
    /\ Len(limiterHist.grants[limiterHist.ip]) >= 2
    /\ limiterHist.seen[limiterHist.ip].resetAt = clock
    /\ limiterHist.ok

\* the number of requests of ip that Allow granted at a time t with
\* from <= t < from + window
GrantedWithin(ip, from) ==
    Cardinality({ i \in 1..Len(limiterHist.grants[ip]) :
                    /\ from <= limiterHist.grants[ip][i]
                    /\ limiterHist.grants[ip][i] < from + limiter.window })

\* C40: for each client ip, Allow grants at most rate requests within any
\* time span of length window, wherever the span starts relative to the ip's
\* last reset
C40_AtMostRatePerWindow ==
    \A ip \in DOMAIN limiterHist.grants, from \in 0..MaxClock :
        GrantedWithin(ip, from) <= limiter.rate

\* the number of requests a span of length window can carry: those left of
\* one period and all of the next
C40_AtMostTwiceRateLessOne ==
    \A ip \in DOMAIN limiterHist.grants, from \in 0..MaxClock :
        GrantedWithin(ip, from) <= 2 * limiter.rate - 1

====
